---- MODULE Spec2Model ----
(***************************************************************************)
(* Model of the car-catalogue console application:                         *)
(*   src/app/main.py                  session, mode selection, menu loop   *)
(*   src/src/function/tools.py        normalizar, leer_csv, escribir_csv   *)
(*   src/src/function/jerarquia.py    derived trees (subgrupos)            *)
(*   src/src/function/data_load.py    local add / edit / delete            *)
(*   src/src/function/api_mode.py     API mode and its local mirror        *)
(*   src/src/function/shearch.py      search and filters                   *)
(*   src/src/function/view.py         ordenar_autos                        *)
(*   src/src/function/statistics.py   mostrar_estadisticas                 *)
(*                                                                         *)
(* A Python str is a sequence of code points.  A code point is written as  *)
(* a TLA+ string; a code point that is not ASCII is written by its name    *)
(* ("a_acute" is U+00E1, "U0301" is the combining acute accent, "n_tilde"  *)
(* is U+00F1, "U0303" is the combining tilde).                             *)
(***************************************************************************)
EXTENDS Integers, Sequences, FiniteSets, TLC

VARIABLES
    nFase,      \* SpecNorm: "inicio", "una", "dos"
    nEntrada,   \* SpecNorm: the string given to normalizar
    nUna,       \* SpecNorm: normalizar(nEntrada)
    nDos,       \* SpecNorm: normalizar(normalizar(nEntrada))
    cFase,      \* SpecCsv: "inicio", "escrito", "crudo", "leido_escrito", "leido_crudo"
    cAutos,     \* SpecCsv: the list given to escribir_csv
    cCrudo,     \* SpecCsv: the data rows of a file that was not written by escribir_csv
    cContenido, \* SpecCsv: the content of the file
    cLeido,     \* SpecCsv: what leer_csv did: [exc, autos, filas_invalidas]
    pc,         \* Spec: "inicio", "modo" (in elegir_modo), "menu" (in main), "fin", "caido"
    excepcion,  \* Spec: the exception that ended the process, "" when none did
    MODO_API,   \* Spec: main.MODO_API
    autos,      \* Spec: main.autos, the list in memory
    disco,      \* Spec: per path of a central file, [central, subgrupos]
    remoto,     \* Spec: the collection the API server holds
    soloValidas,\* Spec: the central file held only valid rows when the session began
    traza,      \* Spec: what the last handler did: [op, guardo, lista, exc, resultado]
    qFase,      \* SpecConsulta: "inicio", "hecho"
    qAutos,     \* SpecConsulta: the list of autos a query is given
    qSalida     \* SpecConsulta: what the query did: [op, entrada, exc, mensaje, lista, extra]

varsNorm == <<nFase, nEntrada, nUna, nDos>>

varsCsv == <<cFase, cAutos, cCrudo, cContenido, cLeido>>

varsSesion == <<pc, excepcion, MODO_API, autos, disco, remoto, soloValidas, traza>>

varsConsulta == <<qFase, qAutos, qSalida>>

vars == <<varsNorm, varsCsv, varsSesion, varsConsulta>>

(***************************************************************************)
(* Strings                                                                 *)
(***************************************************************************)

\* The longest string given to normalizar in SpecNorm.
MaxTexto == 3

RECURSIVE Concatenar(_)
\* ''.join(partes)
Concatenar(partes) ==
    IF partes = <<>> THEN <<>> ELSE Head(partes) \o Concatenar(Tail(partes))

\* str.isspace() on one code point, for the code points of the model.
EsEspacio(c) == c \in {" ", "\t", "\r", "\n"}

RECURSIVE QuitarEspaciosIzq(_)
QuitarEspaciosIzq(s) ==
    IF s # <<>> /\ EsEspacio(Head(s)) THEN QuitarEspaciosIzq(Tail(s)) ELSE s

RECURSIVE QuitarEspaciosDer(_)
QuitarEspaciosDer(s) ==
    IF s # <<>> /\ EsEspacio(s[Len(s)])
    THEN QuitarEspaciosDer(SubSeq(s, 1, Len(s) - 1))
    ELSE s

\* str.strip()
strip(s) == QuitarEspaciosDer(QuitarEspaciosIzq(s))

\* str.lower() on one code point.
MinusculaDe(c) ==
    CASE c = "A" -> "a"
      [] c = "B" -> "b"
      [] c = "C" -> "c"
      [] c = "D" -> "d"
      [] c = "E" -> "e"
      [] c = "K" -> "k"
      [] c = "M" -> "m"
      [] c = "N" -> "n"
      [] c = "A_acute" -> "a_acute"
      [] OTHER -> c

\* str.lower()
lower(s) == [i \in 1..Len(s) |-> MinusculaDe(s[i])]

\* The canonical decomposition of one code point.
DescomponerNFD(c) ==
    CASE c = "a_acute" -> <<"a", "U0301">>
      [] c = "A_acute" -> <<"A", "U0301">>
      [] c = "n_tilde" -> <<"n", "U0303">>
      [] OTHER -> <<c>>

\* unicodedata.normalize('NFD', s)
NFD(s) == Concatenar([i \in 1..Len(s) |-> DescomponerNFD(s[i])])

\* unicodedata.category(c) = 'Mn'
EsMn(c) == c \in {"U0301", "U0303"}

RECURSIVE SinMarcas(_)
\* ''.join(c for c in texto if unicodedata.category(c) != 'Mn')
SinMarcas(s) ==
    IF s = <<>> THEN <<>>
    ELSE IF EsMn(Head(s)) THEN SinMarcas(Tail(s))
    ELSE <<Head(s)>> \o SinMarcas(Tail(s))

\* tools.normalizar
normalizar(texto) == SinMarcas(NFD(strip(lower(texto))))

\* busqueda in texto (Python's substring test)
Contiene(texto, busqueda) ==
    \E i \in 0..(Len(texto) - Len(busqueda)) :
        SubSeq(texto, i + 1, i + Len(busqueda)) = busqueda

(***************************************************************************)
(* Python integers.  A Python int is unbounded, so where an integer passes *)
(* through text (the CSV file) it is held as its decimal numeral, str(n):  *)
(* an optional "-" and digits without leading zeros.                       *)
(***************************************************************************)

Digitos == <<"0", "1", "2", "3", "4", "5", "6", "7", "8", "9">>

EsDigito(c) == \E d \in 1..10 : Digitos[d] = c

ValorDigito(c) == (CHOOSE d \in 1..10 : Digitos[d] = c) - 1

SonDigitos(s) == \A i \in 1..Len(s) : EsDigito(s[i])

RECURSIVE SinCerosIzq(_)
SinCerosIzq(s) ==
    IF s # <<>> /\ Head(s) = "0" THEN SinCerosIzq(Tail(s)) ELSE s

\* a < b for two magnitudes written without leading zeros
MagnitudMenor(a, b) ==
    \/ Len(a) < Len(b)
    \/ /\ Len(a) = Len(b)
       /\ \E i \in 1..Len(a) :
            /\ ValorDigito(a[i]) < ValorDigito(b[i])
            /\ \A j \in 1..(i - 1) : a[j] = b[j]

RECURSIVE MagnitudMas1(_)
MagnitudMas1(s) ==
    IF s = <<>> THEN <<"1">>
    ELSE IF s[Len(s)] = "9"
         THEN MagnitudMas1(SubSeq(s, 1, Len(s) - 1)) \o <<"0">>
         ELSE SubSeq(s, 1, Len(s) - 1) \o <<Digitos[ValorDigito(s[Len(s)]) + 2]>>

RECURSIVE MagnitudMenos1(_)
\* s - 1 for a magnitude s >= 1
MagnitudMenos1(s) ==
    IF s[Len(s)] = "0"
    THEN MagnitudMenos1(SubSeq(s, 1, Len(s) - 1)) \o <<"9">>
    ELSE SinCerosIzq(SubSeq(s, 1, Len(s) - 1)) \o <<Digitos[ValorDigito(s[Len(s)])]>>

\* s mod 4, from the last two digits
MagnitudMod4(s) ==
    LET u == ValorDigito(s[Len(s)])
        d == IF Len(s) > 1 THEN ValorDigito(s[Len(s) - 1]) ELSE 0
    IN  (10 * d + u) % 4

\* 2^53 = 9007199254740992: below it every integer is a float64.
DosALa53 ==
    <<"9", "0", "0", "7", "1", "9", "9", "2", "5", "4", "7", "4", "0", "9", "9", "2">>

\* The float64 nearest to the magnitude m + 0.frac, as an integer magnitude
\* (round half to even).  Exact below 2^53; from 2^53 up to 2^54 the floats
\* are the even integers.  The numerals of the model stay below 2^54.
MagnitudFloat(m, frac) ==
    IF MagnitudMenor(m, DosALa53) THEN m
    ELSE IF ValorDigito(m[Len(m)]) % 2 = 0 THEN m
    ELSE IF \E i \in 1..Len(frac) : frac[i] # "0" THEN MagnitudMas1(m)
    ELSE IF MagnitudMod4(MagnitudMas1(m)) = 0 THEN MagnitudMas1(m)
    ELSE MagnitudMenos1(m)

\* The position of the first "." of s, or 0
PosPunto(s) ==
    IF \E i \in 1..Len(s) : s[i] = "."
    THEN CHOOSE i \in 1..Len(s) : s[i] = "." /\ \A j \in 1..(i - 1) : s[j] # "."
    ELSE 0

\* int(float(texto)): [exc, val] with val the numeral of the result.
\* float() accepts surrounding whitespace, a sign, "inf"/"infinity"/"nan" in
\* any case, and digits with an optional fraction (exponents and underscores
\* are outside the code points of the model).
IntDeFloat(texto) ==
    LET s == strip(texto)
        conSigno == s # <<>> /\ Head(s) \in {"+", "-"}
        neg == s # <<>> /\ Head(s) = "-"
        cuerpo == IF conSigno THEN Tail(s) ELSE s
        p == PosPunto(cuerpo)
        ent == IF p = 0 THEN cuerpo ELSE SubSeq(cuerpo, 1, p - 1)
        frac == IF p = 0 THEN <<>> ELSE SubSeq(cuerpo, p + 1, Len(cuerpo))
        m == MagnitudFloat(SinCerosIzq(ent), frac)
    IN  IF lower(cuerpo) \in {<<"i", "n", "f">>, <<"i", "n", "f", "i", "n", "i", "t", "y">>}
        THEN [exc |-> "OverflowError", val |-> <<>>]
        ELSE IF lower(cuerpo) = <<"n", "a", "n">>
        THEN [exc |-> "ValueError", val |-> <<>>]
        ELSE IF ~(SonDigitos(ent) /\ SonDigitos(frac) /\ Len(ent) + Len(frac) > 0)
        THEN [exc |-> "ValueError", val |-> <<>>]
        ELSE IF m = <<>> THEN [exc |-> "", val |-> <<"0">>]
        ELSE [exc |-> "", val |-> (IF neg THEN <<"-">> ELSE <<>>) \o m]

\* int(texto) for a str: [exc, val].  Surrounding whitespace and a sign are
\* accepted; anything but digits is a ValueError.
IntDeStr(texto) ==
    LET s == strip(texto)
        conSigno == s # <<>> /\ Head(s) \in {"+", "-"}
        neg == s # <<>> /\ Head(s) = "-"
        cuerpo == IF conSigno THEN Tail(s) ELSE s
        m == SinCerosIzq(cuerpo)
    IN  IF cuerpo = <<>> \/ ~SonDigitos(cuerpo)
        THEN [exc |-> "ValueError", val |-> <<>>]
        ELSE IF m = <<>> THEN [exc |-> "", val |-> <<"0">>]
        ELSE [exc |-> "", val |-> (IF neg THEN <<"-">> ELSE <<>>) \o m]

RECURSIVE ValorMagnitud(_)
ValorMagnitud(s) ==
    IF s = <<>> THEN 0
    ELSE 10 * ValorMagnitud(SubSeq(s, 1, Len(s) - 1)) + ValorDigito(s[Len(s)])

\* The integer a numeral stands for (numerals of at most 9 digits).
EnteroDeNumeral(s) ==
    IF s # <<>> /\ Head(s) = "-" THEN 0 - ValorMagnitud(Tail(s)) ELSE ValorMagnitud(s)

RECURSIVE NumeralDeNatural(_)
NumeralDeNatural(n) ==
    IF n < 10 THEN <<Digitos[n + 1]>>
    ELSE NumeralDeNatural(n \div 10) \o <<Digitos[(n % 10) + 1]>>

\* str(n)
NumeralDeEntero(n) ==
    IF n < 0 THEN <<"-">> \o NumeralDeNatural(0 - n) ELSE NumeralDeNatural(n)

(***************************************************************************)
(* The csv module (excel dialect) as tools.py uses it.  The content of a   *)
(* file is the sequence of its code points after decoding; the byte-order  *)
(* mark of utf-8-sig is the code point "BOM".  A column name is written as *)
(* one token: "A[n_tilde]o" is the name spelled with U+00F1 and            *)
(* "Transmisi[o_acute]n" the one spelled with U+00F3.                      *)
(***************************************************************************)

fieldnames ==
    <<<<"Marca">>, <<"Modelo">>, <<"A[n_tilde]o">>, <<"TipoCombustible">>,
      <<"Transmisi[o_acute]n">>>>

\* csv.writer quotes a field that holds the delimiter, the quote character
\* or a character of the line terminator.
NecesitaComillas(campo) ==
    \E i \in 1..Len(campo) : campo[i] \in {",", "\"", "\r", "\n"}

\* The field between quotes, each quote character doubled.
EntreComillas(campo) ==
    <<"\"">>
    \o Concatenar([i \in 1..Len(campo) |->
                      IF campo[i] = "\"" THEN <<"\"", "\"">> ELSE <<campo[i]>>])
    \o <<"\"">>

\* A writer that puts the field between quotes without doubling its quotes.
CampoCsvSinDoblar(campo) ==
    IF NecesitaComillas(campo) THEN <<"\"">> \o campo \o <<"\"">> ELSE campo

CampoCsv(campo) == IF NecesitaComillas(campo) THEN EntreComillas(campo) ELSE campo

\* writer.writerow: the fields joined by "," and ended by "\r\n"
writerow(campos) ==
    Concatenar([i \in 1..Len(campos) |->
                   (IF i > 1 THEN <<",">> ELSE <<>>) \o CampoCsv(campos[i])])
    \o <<"\r", "\n">>

\* The position after the line terminator that starts at position i.
TrasFinDeLinea(t, i) ==
    IF t[i] = "\r" /\ i < Len(t) /\ t[i + 1] = "\n" THEN i + 2 ELSE i + 1

RECURSIVE reader(_, _, _, _, _)
\* csv.reader over the lines of a file opened with newline="": the rows from
\* position i on, in parser state est with the field and the row read so far.
reader(t, i, est, campo, fila) ==
    IF i > Len(t)
    THEN IF est = "START_RECORD" THEN <<>> ELSE <<Append(fila, campo)>>
    ELSE LET c == t[i] IN
         CASE est = "IN_QUOTED_FIELD" ->
                IF c = "\""
                THEN reader(t, i + 1, "QUOTE_IN_QUOTED_FIELD", campo, fila)
                ELSE reader(t, i + 1, "IN_QUOTED_FIELD", Append(campo, c), fila)
           [] est = "QUOTE_IN_QUOTED_FIELD" /\ c = "\"" ->
                reader(t, i + 1, "IN_QUOTED_FIELD", Append(campo, c), fila)
           [] est = "START_RECORD" /\ c \in {"\r", "\n"} ->
                <<<<>>>> \o reader(t, TrasFinDeLinea(t, i), "START_RECORD", <<>>, <<>>)
           [] est # "START_RECORD" /\ c \in {"\r", "\n"} ->
                <<Append(fila, campo)>>
                \o reader(t, TrasFinDeLinea(t, i), "START_RECORD", <<>>, <<>>)
           [] est \in {"START_RECORD", "START_FIELD"} /\ c = "\"" ->
                reader(t, i + 1, "IN_QUOTED_FIELD", <<>>, fila)
           [] c = "," ->
                reader(t, i + 1, "START_FIELD", <<>>, Append(fila, campo))
           [] OTHER ->
                reader(t, i + 1, "IN_FIELD", Append(campo, c), fila)

\* open(..., encoding="utf-8-sig"): one leading byte-order mark is dropped.
DecodificarSig(t) == IF t # <<>> /\ Head(t) = "BOM" THEN Tail(t) ELSE t

\* csv.DictReader: the first row gives the field names, empty rows are
\* skipped.  [nombres, filas]
DictReader(t) ==
    LET todas == reader(DecodificarSig(t), 1, "START_RECORD", <<>>, <<>>)
    IN  [nombres |-> IF todas = <<>> THEN <<>> ELSE Head(todas),
         filas   |-> IF todas = <<>> THEN <<>>
                     ELSE SelectSeq(Tail(todas), LAMBDA f : f # <<>>)]

\* fila.get(clave) of the dict DictReader builds from a row, with None and a
\* missing key both written as the empty string (each is falsy).
Get(nombres, fila, clave) ==
    LET idx == {i \in 1..Len(nombres) : nombres[i] = clave}
    IN  IF idx = {} \/ \E i \in idx : i > Len(fila) THEN <<>>
        ELSE fila[CHOOSE i \in idx : \A j \in idx : j <= i]

RECURSIVE PrimeroNoVacio(_, _, _)
\* fila.get(k1) or fila.get(k2) or ...
PrimeroNoVacio(nombres, fila, claves) ==
    IF Len(claves) = 1 \/ Get(nombres, fila, Head(claves)) # <<>>
    THEN Get(nombres, fila, Head(claves))
    ELSE PrimeroNoVacio(nombres, fila, Tail(claves))

RECURSIVE LeerFilas(_, _, _, _)
\* The loop of leer_csv over the rows: [exc, autos, filas_invalidas]
LeerFilas(nombres, filas, lista, filas_invalidas) ==
    IF filas = <<>>
    THEN [exc |-> "", autos |-> lista, filas_invalidas |-> filas_invalidas]
    ELSE LET fila == Head(filas)
             marca == PrimeroNoVacio(nombres, fila, <<<<"Marca">>, <<"marca">>>>)
             modelo == PrimeroNoVacio(nombres, fila, <<<<"Modelo">>, <<"modelo">>>>)
             anio == PrimeroNoVacio(nombres, fila,
                        <<<<"A[n_tilde]o">>, <<"A[n_tilde]o">>, <<"a[n_tilde]o">>>>)
             tipo_combustible == PrimeroNoVacio(nombres, fila,
                        <<<<"TipoCombustible">>, <<"tipoCombustible">>,
                          <<"tipocombustible">>>>)
             transmision == PrimeroNoVacio(nombres, fila,
                        <<<<"Transmisi[o_acute]n">>, <<"transmisi[o_acute]n">>,
                          <<"transmision">>, <<"Transmision">>>>)
             anio_int == IntDeFloat(anio)
         IN  IF <<>> \in {marca, modelo, anio, tipo_combustible, transmision}
             THEN LeerFilas(nombres, Tail(filas), lista, filas_invalidas + 1)
             ELSE IF anio_int.exc = "ValueError"
             THEN LeerFilas(nombres, Tail(filas), lista, filas_invalidas + 1)
             ELSE IF anio_int.exc # ""
             THEN [exc |-> anio_int.exc, autos |-> lista,
                   filas_invalidas |-> filas_invalidas]
             ELSE LeerFilas(nombres, Tail(filas),
                            Append(lista, [Marca |-> strip(marca),
                                           Modelo |-> strip(modelo),
                                           Anio |-> anio_int.val,
                                           TipoCombustible |-> strip(tipo_combustible),
                                           Transmision |-> strip(transmision)]),
                            filas_invalidas)

\* tools.leer_csv on the content of the file: [exc, autos, filas_invalidas],
\* the year of each auto as its numeral.
leer_csv(contenido) ==
    LET d == DictReader(contenido) IN LeerFilas(d.nombres, d.filas, <<>>, 0)

(***************************************************************************)
(* Writing.  escribir_csv is given a list of dicts; a value of a dict is   *)
(* [t, v]: a str (v its code points), an int (v its numeral) or "falta"    *)
(* for a key the dict does not have.                                       *)
(***************************************************************************)

Str(s) == [t |-> "str", v |-> s]
Int_(numeral) == [t |-> "int", v |-> numeral]
Falta == [t |-> "falta", v |-> <<>>]

Campos == <<"Marca", "Modelo", "Anio", "TipoCombustible", "Transmision">>

\* str(a[clave]): [exc, val]
StrDe(valor) ==
    IF valor.t = "falta" THEN [exc |-> "KeyError", val |-> <<>>]
    ELSE [exc |-> "", val |-> valor.v]

\* int(a["Año"]): [exc, val]
IntDe(valor) ==
    CASE valor.t = "falta" -> [exc |-> "KeyError", val |-> <<>>]
      [] valor.t = "int" -> [exc |-> "", val |-> valor.v]
      [] OTHER -> IntDeStr(valor.v)

\* The dict literal given to writer.writerow, evaluated left to right:
\* [exc, campos], exc the first exception raised.
FilaDeAuto(a) ==
    LET vals == [i \in 1..5 |->
                    IF Campos[i] = "Anio" THEN IntDe(a[Campos[i]])
                    ELSE StrDe(a[Campos[i]])]
        malos == {i \in 1..5 : vals[i].exc # ""}
    IN  IF malos = {}
        THEN [exc |-> "", campos |-> [i \in 1..5 |-> vals[i].val]]
        ELSE [exc |-> vals[CHOOSE i \in malos : \A j \in malos : i <= j].exc,
              campos |-> <<>>]

RECURSIVE EscribirFilas(_, _)
\* The loop "for a in autos: writer.writerow(...)" after contenido has been
\* written: [exc, contenido].  The rows written before an exception stay in
\* the file when the with block closes it.
EscribirFilas(lista, contenido) ==
    IF lista = <<>> THEN [exc |-> "", contenido |-> contenido]
    ELSE LET f == FilaDeAuto(Head(lista))
         IN  IF f.exc # "" THEN [exc |-> f.exc, contenido |-> contenido]
             ELSE EscribirFilas(Tail(lista), contenido \o writerow(f.campos))

\* open(ruta, "w", encoding="utf-8-sig"), writeheader and the rows.
EscribirArchivo(lista) ==
    EscribirFilas(lista, <<"BOM">> \o writerow(fieldnames))

CaracteresProblematicos == {"/", "\\", ":", "*", "?", "\"", "<", ">", "|"}

\* jerarquia.limpiar_nombre_archivo
limpiar_nombre_archivo(nombre) ==
    LET limpio == strip([i \in 1..Len(nombre) |->
                            IF nombre[i] \in CaracteresProblematicos THEN "-"
                            ELSE nombre[i]])
    IN  IF limpio # <<>> THEN limpio ELSE <<"SinNombre">>

\* auto.get(campo, "Desconocida")
ClaveDeGrupo(a, campo) ==
    IF a[campo].t = "falta" THEN <<"Desconocida">> ELSE a[campo].v

RECURSIVE ClavesDeGrupos(_, _, _)
\* The keys of the dict autos_por_<campo>, in insertion order.
ClavesDeGrupos(lista, campo, vistas) ==
    IF lista = <<>> THEN vistas
    ELSE LET k == ClaveDeGrupo(Head(lista), campo)
         IN  ClavesDeGrupos(Tail(lista), campo,
                            IF \E i \in 1..Len(vistas) : vistas[i] = k
                            THEN vistas ELSE Append(vistas, k))

\* autos_por_<campo>[clave]
AutosDeGrupo(lista, campo, clave) ==
    SelectSeq(lista, LAMBDA a : ClaveDeGrupo(a, campo) = clave)

\* The directory with the file nombre holding contenido (created or replaced).
ConArchivo(carpeta, nombre, contenido) ==
    [n \in (DOMAIN carpeta) \cup {nombre} |->
        IF n = nombre THEN contenido ELSE carpeta[n]]

RECURSIVE EscribirGrupos(_, _, _, _)
RECURSIVE EscribirGrupo(_, _, _, _, _)
\* The loop "for clave, lista_autos in autos_por_<campo>.items()":
\* [exc, carpeta]
EscribirGrupos(carpeta, lista, campo, claves) ==
    IF claves = <<>> THEN [exc |-> "", carpeta |-> carpeta]
    ELSE EscribirGrupo(carpeta, lista, campo, claves,
                       EscribirArchivo(AutosDeGrupo(lista, campo, Head(claves))))

\* One pass of that loop, w what the with block of the group's file wrote:
\* the file is created or replaced, and an exception of a row ends the loop.
EscribirGrupo(carpeta, lista, campo, claves, w) ==
    LET nombre_archivo == limpiar_nombre_archivo(Head(claves)) \o <<".csv">>
    IN  IF w.exc # ""
        THEN [exc |-> w.exc, carpeta |-> ConArchivo(carpeta, nombre_archivo, w.contenido)]
        ELSE EscribirGrupos(ConArchivo(carpeta, nombre_archivo, w.contenido),
                            lista, campo, Tail(claves))

\* jerarquia.organizar_por_marca / _combustible / _transmision on the
\* directory of the tree: [exc, carpeta]
organizar_por(carpeta, lista, campo) ==
    EscribirGrupos(carpeta, lista, campo, ClavesDeGrupos(lista, campo, <<>>))

Arboles == <<"por_marca", "por_combustible", "por_transmision">>

CampoDeArbol(arbol) ==
    CASE arbol = "por_marca" -> "Marca"
      [] arbol = "por_combustible" -> "TipoCombustible"
      [] arbol = "por_transmision" -> "Transmision"

\* Where the file system refuses an operation of escribir_csv (an OSError):
\* nowhere, at the open of the central file, at the mkdir of
\* inicializar_estructura_jerarquica, or at the first open of the
\* por_combustible tree (por_marca already written).
Fallos == {"", "abrir_central", "mkdir", "por_combustible"}

RECURSIVE OrganizarArboles(_, _, _, _)
RECURSIVE OrganizarArbol(_, _, _, _, _)
\* The three organizar_por_ calls of sincronizar_estructura_jerarquica from
\* tree number k on: [exc, subgrupos]
OrganizarArboles(sub, lista, fallo, k) ==
    IF k > Len(Arboles) THEN [exc |-> "", subgrupos |-> sub]
    ELSE IF fallo = Arboles[k] /\ lista # <<>>
    THEN [exc |-> "OSError", subgrupos |-> sub]
    ELSE OrganizarArbol(sub, lista, fallo, k,
                        organizar_por(sub[Arboles[k]], lista, CampoDeArbol(Arboles[k])))

\* Tree number k organized with outcome o: an exception ends the
\* synchronization, otherwise the next tree follows.
OrganizarArbol(sub, lista, fallo, k, o) ==
    IF o.exc # "" THEN [exc |-> o.exc, subgrupos |-> [sub EXCEPT ![Arboles[k]] = o.carpeta]]
    ELSE OrganizarArboles([sub EXCEPT ![Arboles[k]] = o.carpeta], lista, fallo, k + 1)

\* A synchronization that organizes by marca and by combustible only.
SincronizarSinTransmision(sub, lista, fallo) ==
    IF fallo = "mkdir" THEN [exc |-> "OSError", subgrupos |-> sub]
    ELSE [exc |-> "", subgrupos |->
             [sub EXCEPT !.por_marca = organizar_por(sub.por_marca, lista, "Marca").carpeta,
                         !.por_combustible =
                             organizar_por(sub.por_combustible, lista,
                                           "TipoCombustible").carpeta]]

\* jerarquia.sincronizar_estructura_jerarquica: [exc, subgrupos]
sincronizar_estructura_jerarquica(sub, lista, fallo) ==
    IF fallo = "mkdir" THEN [exc |-> "OSError", subgrupos |-> sub]
    ELSE OrganizarArboles(sub, lista, fallo, 1)

\* The return of tools.escribir_csv after the synchronization with outcome s.
TrasSincronizar(contenido, s) ==
    [exc |-> s.exc, sincronizo |-> TRUE,
     disco |-> [central |-> contenido, subgrupos |-> s.subgrupos]]

\* The end of tools.escribir_csv, w what the with block of the central file
\* wrote: an exception of a row leaves the function before the
\* synchronization; an exception of the synchronization leaves it too, only
\* ImportError being caught (the module is present, so none is raised).
TrasEscribirCentral(dsk, lista, fallo, w) ==
    IF w.exc # ""
    THEN [exc |-> w.exc, sincronizo |-> FALSE,
          disco |-> [dsk EXCEPT !.central = w.contenido]]
    ELSE TrasSincronizar(w.contenido,
                         sincronizar_estructura_jerarquica(dsk.subgrupos, lista, fallo))

\* tools.escribir_csv on the disk [central, subgrupos]: the exception that
\* leaves it ("" for a normal return), the disk afterwards, and whether the
\* synchronization was called.
escribir_csv(dsk, lista, fallo) ==
    IF fallo = "abrir_central"
    THEN [exc |-> "OSError", disco |-> dsk, sincronizo |-> FALSE]
    ELSE TrasEscribirCentral(dsk, lista, fallo, EscribirArchivo(lista))

(***************************************************************************)
(* SpecNorm: normalizar applied once and twice to every short string       *)
(***************************************************************************)

AlfabetoNorm == {" ", "a", "A", "a_acute", "A_acute", "U0301"}

TextosHasta(alfabeto, n) == UNION {[1..k -> alfabeto] : k \in 0..n}

NormReposo ==
    /\ nFase = "reposo"
    /\ nEntrada = <<>>
    /\ nUna = <<>>
    /\ nDos = <<>>

CsvReposo ==
    /\ cFase = "reposo"
    /\ cAutos = <<>>
    /\ cCrudo = <<>>
    /\ cContenido = <<>>
    /\ cLeido = [exc |-> "", autos |-> <<>>, filas_invalidas |-> 0]

\* The record of a handler that has done nothing.
TrazaVacia ==
    [op |-> "", guardo |-> FALSE, lista |-> <<>>, exc |-> "", sincronizo |-> FALSE,
     resultado |-> FALSE]

SesionReposo ==
    /\ pc = "reposo"
    /\ excepcion = ""
    /\ MODO_API = FALSE
    /\ autos = <<>>
    /\ disco = <<>>
    /\ remoto = <<>>
    /\ soloValidas = FALSE
    /\ traza = TrazaVacia

\* The record of a query that has not run.
SalidaVacia ==
    [op |-> "", entrada |-> <<>>, exc |-> "", mensaje |-> "", lista |-> <<>>,
     extra |-> <<>>]

ConsultaReposo ==
    /\ qFase = "reposo"
    /\ qAutos = <<>>
    /\ qSalida = SalidaVacia

InitNorm ==
    /\ nFase = "inicio"
    /\ nEntrada \in TextosHasta(AlfabetoNorm, MaxTexto)
    /\ nUna = <<>>
    /\ nDos = <<>>
    /\ CsvReposo
    /\ SesionReposo
    /\ ConsultaReposo

NormUna ==
    /\ nFase = "inicio"
    /\ nFase' = "una"
    /\ nUna' = normalizar(nEntrada)
    /\ UNCHANGED <<nEntrada, nDos, varsCsv, varsSesion, varsConsulta>>

NormDos ==
    /\ nFase = "una"
    /\ nFase' = "dos"
    /\ nDos' = normalizar(nUna)
    /\ UNCHANGED <<nEntrada, nUna, varsCsv, varsSesion, varsConsulta>>

NextNorm == NormUna \/ NormDos

SpecNorm == InitNorm /\ [][NextNorm]_vars

\* C10: normalizar(normalizar(x)) = normalizar(x) for every string x, and
\* normalizar('Á') = normalizar('a').
C10_Idempotente ==
    /\ nFase = "dos" => nDos = nUna
    /\ (nFase # "inicio" /\ nEntrada = <<"A_acute">>) => nUna = normalizar(<<"a">>)

(***************************************************************************)
(* SpecCsv: escribir_csv and leer_csv on one file.  The file is either     *)
(* written by escribir_csv from a list of valid autos, or it is a file     *)
(* found on disk whose data rows may be malformed.                         *)
(***************************************************************************)

\* The most autos given to escribir_csv, and the most data rows of a file
\* found on disk.
MaxRegistros == 2

\* 2^53 + 1, the first integer that is not a float64.
DosALa53Mas1 == MagnitudMas1(DosALa53)

\* Field values that exercise the quoting of the csv module.
CamposCsv ==
    {<<"a">>, <<"a", ",", "b">>, <<"\"">>, <<"a", "\"", "b">>, <<"\"", "\"">>,
     <<"a", "\n", "b">>, <<"a", "\r", "\n", "b">>, <<"a", " ", "b">>}

\* The years of the autos written: numerals of Python ints.
AniosCsv == {<<"2", "0", "2", "0">>, <<"0">>, <<"-", "5">>, DosALa53Mas1}

\* Valid autos: five non-empty str fields without surrounding whitespace and
\* an int year.
AutosCsv ==
    {[Marca |-> Str(m), Modelo |-> Str(<<"K">>), Anio |-> Int_(y),
      TipoCombustible |-> Str(<<"N">>), Transmision |-> Str(<<"M">>)] :
        m \in CamposCsv, y \in AniosCsv}

ListasHasta(S, n) == UNION {[1..k -> S] : k \in 0..n}

\* The text of the year column in a file found on disk.
AniosCrudos ==
    {<<"2", "0", "2", "0">>, <<"1", "8", "0", "0">>, <<"2", "0", ".", "7">>,
     <<"i", "n", "f">>, <<"n", "a", "n">>, <<"x">>, <<>>}

\* The rows of a file found on disk: five columns, the first and the third
\* varied, or a row that stops after the fourth column.
FilasCrudas ==
    {<<m, <<"K">>, y, <<"N">>, <<"M">>>> :
        m \in {<<"A">>, <<>>, <<" ">>, <<" ", "A">>}, y \in AniosCrudos}
    \cup {<<<<"A">>, <<"K">>, <<"2", "0", "2", "0">>, <<"N">>>>}

\* One line of a file found on disk: the columns joined by commas.
LineaCruda(fila) ==
    Concatenar([i \in 1..Len(fila) |->
                   (IF i > 1 THEN <<",">> ELSE <<>>) \o fila[i]])
    \o <<"\r", "\n">>

InitCsv ==
    /\ cFase = "inicio"
    /\ cAutos = <<>>
    /\ cCrudo = <<>>
    /\ cContenido = <<>>
    /\ cLeido = [exc |-> "", autos |-> <<>>, filas_invalidas |-> 0]
    /\ NormReposo
    /\ SesionReposo
    /\ ConsultaReposo

\* escribir_csv(ruta, autos), the file system refusing nothing.
CsvEscribir ==
    /\ cFase = "inicio"
    /\ \E lista \in ListasHasta(AutosCsv, MaxRegistros) :
        /\ cAutos' = lista
        /\ cContenido' = EscribirArchivo(lista).contenido
    /\ cFase' = "escrito"
    /\ UNCHANGED <<cCrudo, cLeido, varsNorm, varsSesion, varsConsulta>>

\* A file found on disk: the standard header and up to MaxRegistros rows.
CsvCrudo ==
    /\ cFase = "inicio"
    /\ \E filas \in ListasHasta(FilasCrudas, MaxRegistros) :
        /\ cCrudo' = filas
        /\ cContenido' = <<"BOM">> \o writerow(fieldnames)
                         \o Concatenar([i \in 1..Len(filas) |-> LineaCruda(filas[i])])
    /\ cFase' = "crudo"
    /\ UNCHANGED <<cAutos, cLeido, varsNorm, varsSesion, varsConsulta>>

\* leer_csv(ruta)
CsvLeer ==
    /\ cFase \in {"escrito", "crudo"}
    /\ cLeido' = leer_csv(cContenido)
    /\ cFase' = IF cFase = "escrito" THEN "leido_escrito" ELSE "leido_crudo"
    /\ UNCHANGED <<cAutos, cCrudo, cContenido, varsNorm, varsSesion, varsConsulta>>

NextCsv == CsvEscribir \/ CsvCrudo \/ CsvLeer

SpecCsv == InitCsv /\ [][NextCsv]_vars

\* The auto a row with five non-empty columns and a numeric year stands
\* for, the year as its numeral.
AutoDeFilaCruda(f) ==
    [Marca |-> strip(f[1]), Modelo |-> strip(f[2]), Anio |-> IntDeFloat(f[3]).val,
     TipoCombustible |-> strip(f[4]), Transmision |-> strip(f[5])]

\* A row is malformed when a required column is missing or empty, or when
\* the year text is not a finite number.
FilaCrudaValida(f) ==
    /\ Len(f) >= 5
    /\ \A i \in 1..5 : f[i] # <<>>
    /\ IntDeFloat(f[3]).exc = ""

\* C8: leer_csv never raises on a malformed row; every malformed row is
\* skipped and counted, so returned records + skip count = data rows, and the
\* valid records are returned in file order.
C8_LeerNuncaLanza ==
    cFase = "leido_crudo" =>
        /\ cLeido.exc = ""
        /\ Len(cLeido.autos) + cLeido.filas_invalidas = Len(cCrudo)
        /\ cLeido.autos =
             LET validas == SelectSeq(cCrudo, FilaCrudaValida)
             IN  [i \in 1..Len(validas) |-> AutoDeFilaCruda(validas[i])]

\* The auto of a dict whose values are four strs and an int.
AutoDeDict(a) ==
    [Marca |-> a.Marca.v, Modelo |-> a.Modelo.v, Anio |-> a.Anio.v,
     TipoCombustible |-> a.TipoCombustible.v, Transmision |-> a.Transmision.v]

IdaYVuelta ==
    /\ cLeido.exc = ""
    /\ cLeido.filas_invalidas = 0
    /\ cLeido.autos = [i \in 1..Len(cAutos) |-> AutoDeDict(cAutos[i])]

\* C9 as stated: for every sequence of valid records with an integer year,
\* leer_csv of the file escribir_csv wrote returns the same records, same
\* values, same order, no row skipped.
C9_IdaYVueltaTodoEntero == cFase = "leido_escrito" => IdaYVuelta

\* |numeral| <= 2^53
EnRangoExacto(numeral) ==
    LET m == IF Head(numeral) = "-" THEN Tail(numeral) ELSE numeral
    IN  ~MagnitudMenor(DosALa53, m)

\* C9 amended: the round trip holds for every sequence of valid records
\* whose years are integers of magnitude at most 2^53.
C9_IdaYVuelta ==
    (/\ cFase = "leido_escrito"
     /\ \A i \in 1..Len(cAutos) : EnRangoExacto(cAutos[i].Anio.v)) => IdaYVuelta

\* Two autos were written, one with a field the writer had to quote, and
\* read back equal.
C9_Testigo ==
    /\ cFase = "leido_escrito"
    /\ Len(cAutos) = 2
    /\ \A i \in 1..2 : EnRangoExacto(cAutos[i].Anio.v)
    /\ \E i \in 1..2 : NecesitaComillas(cAutos[i].Marca.v)
    /\ IdaYVuelta

(***************************************************************************)
(* Spec: the session of app/main.py.  One action is one pass through the   *)
(* loop of elegir_modo or of main: the prompt, the handler it dispatches   *)
(* to and, in local mode, the escribir_csv that follows it.                *)
(***************************************************************************)

\* The most autos in memory and the most items the server holds.
MaxAutos == 2

\* function.init.init_db(project_root): the path of the central file.
init_db == <<"src", "db", "autos.csv">>

\* main.db_path
db_path == init_db

\* api_mode._sincronizar_api_con_local: project_root / "src" / "db" / "autos.csv"
db_path_api == <<"src", "db", "autos.csv">>

Rutas == {db_path, db_path_api}

\* The auto of main.autos as the dict it is: four strs and an int.
DictDeAuto(a) ==
    [Marca |-> Str(a.Marca), Modelo |-> Str(a.Modelo),
     Anio |-> Int_(NumeralDeEntero(a.Anio)),
     TipoCombustible |-> Str(a.TipoCombustible),
     Transmision |-> Str(a.Transmision)]

Dicts(lista) == [i \in 1..Len(lista) |-> DictDeAuto(lista[i])]

\* The auto leer_csv appended, its year as an integer.
AutoDeLeido(r) == [r EXCEPT !.Anio = EnteroDeNumeral(r.Anio)]

RECURSIVE PrimeraNoVacia(_)
\* x = input(...).strip(); while x == "": x = input(...).strip()
\* on the answers typed, the last of which is not blank.
PrimeraNoVacia(respuestas) ==
    IF Len(respuestas) = 1 \/ strip(Head(respuestas)) # <<>>
    THEN strip(Head(respuestas))
    ELSE PrimeraNoVacia(Tail(respuestas))

RECURSIVE LeerAnio(_)
\* año = int(input(...)); while año < 1900 or año > 2100: año = int(input(...))
\* on the answers typed: [exc, val].  The last answer is in range or is not
\* a number.
LeerAnio(respuestas) ==
    LET n == IntDeStr(Head(respuestas))
    IN  IF n.exc # "" THEN [exc |-> n.exc, val |-> 0]
        ELSE IF EnteroDeNumeral(n.val) < 1900 \/ EnteroDeNumeral(n.val) > 2100
        THEN LeerAnio(Tail(respuestas))
        ELSE [exc |-> "", val |-> EnteroDeNumeral(n.val)]

\* The prompts of agregar_auto, which agregar_auto_api repeats: [exc, auto],
\* exc the ValueError of a year that is not a number (the function returns).
PedirAuto(e) ==
    LET marca == PrimeraNoVacia(e.marca)
        modelo == PrimeraNoVacia(e.modelo)
        anio == LeerAnio(e.anio)
        tipo_combustible == PrimeraNoVacia(e.tipo_combustible)
        transmision == PrimeraNoVacia(e.transmision)
    IN  [exc |-> anio.exc,
         auto |-> [Marca |-> marca, Modelo |-> modelo, Anio |-> anio.val,
                   TipoCombustible |-> tipo_combustible,
                   Transmision |-> transmision]]

\* data_load.agregar_auto on what the user types: [autos, agregado]
agregar_auto(lista, e) ==
    LET nuevo_auto == PedirAuto(e)
    IN  IF nuevo_auto.exc # "" THEN [autos |-> lista, agregado |-> FALSE]
        ELSE [autos |-> Append(lista, nuevo_auto.auto), agregado |-> TRUE]

RECURSIVE Coincidencias(_, _, _)
\* The positions in lista, from i on, of
\* [a for a in autos if busqueda_norm in normalizar(a["Marca"])
\*                   or busqueda_norm in normalizar(a["Modelo"])]
Coincidencias(lista, busqueda_norm, i) ==
    IF i > Len(lista) THEN <<>>
    ELSE (IF \/ Contiene(normalizar(lista[i].Marca), busqueda_norm)
             \/ Contiene(normalizar(lista[i].Modelo), busqueda_norm)
          THEN <<i>> ELSE <<>>)
         \o Coincidencias(lista, busqueda_norm, i + 1)

\* The year typed in editar_auto taken whenever it is a number.
AnioEditadoSinRango(anterior, respuesta) ==
    LET n == IntDeStr(strip(respuesta))
    IN  IF strip(respuesta) = <<>> \/ n.exc # "" THEN anterior
        ELSE EnteroDeNumeral(n.val)

\* The year typed in editar_auto: the new year, or the old one when the
\* answer is blank, not a number or out of range.
AnioEditado(anterior, respuesta) ==
    LET n == IntDeStr(strip(respuesta))
    IN  IF strip(respuesta) = <<>> \/ n.exc # "" THEN anterior
        ELSE IF 1900 <= EnteroDeNumeral(n.val) /\ EnteroDeNumeral(n.val) <= 2100
        THEN EnteroDeNumeral(n.val)
        ELSE anterior

\* A field typed in editar_auto: kept when the answer is blank.
CampoEditado(anterior, respuesta) ==
    IF strip(respuesta) # <<>> THEN strip(respuesta) ELSE anterior

\* data_load.editar_auto on what the user types: the list afterwards.
editar_auto(lista, e) ==
    LET busqueda == strip(e.busqueda)
        resultados == Coincidencias(lista, normalizar(busqueda), 1)
        indice == IntDeStr(e.indice)
        i == EnteroDeNumeral(indice.val) - 1
    IN  IF busqueda = <<>> \/ resultados = <<>> THEN lista
        ELSE IF indice.exc # "" THEN lista
        ELSE IF i < 0 \/ i >= Len(resultados) THEN lista
        ELSE LET k == resultados[i + 1]
                 auto == lista[k]
             IN  [lista EXCEPT ![k] =
                     [Marca |-> CampoEditado(auto.Marca, e.nueva_marca),
                      Modelo |-> CampoEditado(auto.Modelo, e.nuevo_modelo),
                      Anio |-> AnioEditado(auto.Anio, e.nuevo_anio),
                      TipoCombustible |->
                          CampoEditado(auto.TipoCombustible, e.nuevo_combustible),
                      Transmision |->
                          CampoEditado(auto.Transmision, e.nueva_transmision)]]

\* lista without its element number k
SinElemento(lista, k) ==
    SubSeq(lista, 1, k - 1) \o SubSeq(lista, k + 1, Len(lista))

\* A borrar_auto that pops the auto the user selected, not the first auto
\* with its Marca, Modelo and Año.
BorrarElSeleccionado(lista, e) ==
    LET busqueda == strip(e.busqueda)
        resultados == Coincidencias(lista, normalizar(busqueda), 1)
        indice == IntDeStr(strip(e.indice))
        idx == EnteroDeNumeral(indice.val) - 1
        no == [autos |-> lista, borrado |-> FALSE]
    IN  IF busqueda = <<>> \/ resultados = <<>> THEN no
        ELSE IF indice.exc # "" THEN no
        ELSE IF idx < 0 \/ idx >= Len(resultados) THEN no
        ELSE IF lower(strip(e.confirma)) # <<"s">> THEN no
        ELSE [autos |-> SinElemento(lista, resultados[idx + 1]), borrado |-> TRUE]

\* data_load.borrar_auto on what the user types: [autos, borrado]
borrar_auto(lista, e) ==
    LET busqueda == strip(e.busqueda)
        resultados == Coincidencias(lista, normalizar(busqueda), 1)
        indice == IntDeStr(strip(e.indice))
        idx == EnteroDeNumeral(indice.val) - 1
        no == [autos |-> lista, borrado |-> FALSE]
    IN  IF busqueda = <<>> \/ resultados = <<>> THEN no
        ELSE IF indice.exc # "" THEN no
        ELSE IF idx < 0 \/ idx >= Len(resultados) THEN no
        ELSE IF lower(strip(e.confirma)) # <<"s">> THEN no
        ELSE LET objetivo == lista[resultados[idx + 1]]
                 iguales == {j \in 1..Len(lista) :
                                /\ lista[j].Marca = objetivo.Marca
                                /\ lista[j].Modelo = objetivo.Modelo
                                /\ lista[j].Anio = objetivo.Anio}
             IN  [autos |-> SinElemento(lista,
                                CHOOSE j \in iguales : \A h \in iguales : j <= h),
                  borrado |-> TRUE]

\* requests' Response.raise_for_status(): HTTPError for a status from 400
\* to 599, nothing for any other status.
raise_for_status(status_code) ==
    IF 400 <= status_code /\ status_code < 600 THEN "HTTPError" ELSE ""

\* api_client.eliminar_auto on the status of the answer to DELETE:
\* [exc, retorno]
eliminar_auto(status_code) ==
    IF status_code \notin {200, 204} /\ raise_for_status(status_code) # ""
    THEN [exc |-> raise_for_status(status_code), retorno |-> FALSE]
    ELSE [exc |-> "", retorno |-> TRUE]

\* api_client.listar_autos: [exc, json].  The request fails ("error": no
\* connection or a timeout), raise_for_status() raises for an HTTP error
\* ("http"), resp.json() raises for a body that is not JSON ("no_json"), or
\* the JSON value is returned: an object of one key ("no_lista") or the
\* array of the items.
listar_autos(items, respuesta) ==
    CASE respuesta = "error" -> [exc |-> "ConnectionError", json |-> <<>>]
      [] respuesta = "http" -> [exc |-> "HTTPError", json |-> <<>>]
      [] respuesta = "no_json" -> [exc |-> "JSONDecodeError", json |-> <<>>]
      [] respuesta = "no_lista" ->
            [exc |-> "", json |-> [tipo |-> "object", valor |-> <<"detail">>]]
      [] respuesta = "lista" ->
            [exc |-> "", json |-> [tipo |-> "array", valor |-> items]]

\* The exceptions that `except Exception` catches.
EsException(exc) ==
    exc \in {"ConnectionError", "HTTPError", "JSONDecodeError", "ValueError",
             "KeyError", "TypeError", "OSError"}

\* obtener_autos_api whose except clause catches requests.HTTPError only.
ObtenerAutosApiSoloHTTPError(items, respuesta) ==
    LET r == listar_autos(items, respuesta)
        vacia == [tipo |-> "array", valor |-> <<>>]
    IN  IF r.exc # ""
        THEN [retorno |-> vacia, exc |-> IF r.exc = "HTTPError" THEN "" ELSE r.exc,
              mensaje |-> "error"]
        ELSE IF r.json.tipo # "array"
        THEN [retorno |-> vacia, exc |-> "", mensaje |-> "no_es_lista"]
        ELSE IF Len(r.json.valor) = 0
        THEN [retorno |-> vacia, exc |-> "", mensaje |-> "no_tenemos"]
        ELSE [retorno |-> r.json, exc |-> "", mensaje |-> ""]

\* api_mode.obtener_autos_api: [retorno, exc, mensaje], retorno the value
\* returned, exc the exception that leaves the function and mensaje what it
\* prints.
ObtenerAutosApi(items, respuesta) ==
    LET r == listar_autos(items, respuesta)
        vacia == [tipo |-> "array", valor |-> <<>>]
    IN  IF r.exc # ""
        THEN [retorno |-> vacia, exc |-> IF EsException(r.exc) THEN "" ELSE r.exc,
              mensaje |-> "error"]
        ELSE IF r.json.tipo # "array"
        THEN [retorno |-> vacia, exc |-> "", mensaje |-> "no_es_lista"]
        ELSE IF Len(r.json.valor) = 0
        THEN [retorno |-> vacia, exc |-> "", mensaje |-> "no_tenemos"]
        ELSE [retorno |-> r.json, exc |-> "", mensaje |-> ""]

\* api_mode.obtener_autos_api(): the list it returns, which is the items of
\* the server, or [] when the request fails (the exception is caught).
obtener_autos_api(items, respuesta) == ObtenerAutosApi(items, respuesta).retorno.valor

\* What _sincronizar_api_con_local leaves after escribir_csv with outcome r.
TrasEscribirApi(d, autos_api, r) ==
    [guardo |-> TRUE, lista |-> autos_api, exc |-> r.exc, sincronizo |-> r.sincronizo,
     disco |-> [d EXCEPT ![db_path_api] = r.disco]]

\* api_mode._sincronizar_api_con_local on the disk: [guardo, lista, exc,
\* sincronizo, disco].  Nothing is written when the server's list is empty;
\* every exception of escribir_csv is caught here.
sincronizar_api_con_local(d, items, respuesta, fallo) ==
    LET autos_api == obtener_autos_api(items, respuesta)
    IN  IF autos_api = <<>>
        THEN [guardo |-> FALSE, lista |-> <<>>, exc |-> "", sincronizo |-> FALSE,
              disco |-> d]
        ELSE TrasEscribirApi(d, autos_api, escribir_csv(d[db_path_api], autos_api, fallo))

\* Texts typed at the prompts.
tAB == <<"A", "/", "B">>
tA_B == <<"A", "-", "B">>
t2020 == <<"2", "0", "2", "0">>
t1800 == <<"1", "8", "0", "0">>

\* What the user types in agregar_auto and agregar_auto_api: for each
\* prompt the answers given until one is accepted.
EntradasAgregar ==
    [marca : {<<tAB>>, <<<<" ">>, tA_B>>},
     modelo : {<<<<"K">>>>},
     anio : {<<t2020>>, <<t1800, t2020>>, <<t1800, <<"x">>>>},
     tipo_combustible : {<<<<>>, <<"N">>>>},
     transmision : {<<<<"M">>>>}]

\* What the user types in agregar_auto_api.
EntradasAgregarApi ==
    [marca : {<<<<"C">>>>},
     modelo : {<<<<"K">>>>},
     anio : {<<t2020>>, <<<<"x">>>>},
     tipo_combustible : {<<<<"N">>>>},
     transmision : {<<<<"M">>>>}]

\* What the user types in editar_auto.
EntradaEditar(busqueda, indice, marca, anio, combustible) ==
    [busqueda |-> busqueda, indice |-> indice, nueva_marca |-> marca,
     nuevo_modelo |-> <<>>, nuevo_anio |-> anio, nuevo_combustible |-> combustible,
     nueva_transmision |-> <<" ">>]

EntradasEditar ==
    {EntradaEditar(<<>>, <<>>, <<>>, <<>>, <<>>),
     EntradaEditar(<<"z">>, <<>>, <<>>, <<>>, <<>>),
     EntradaEditar(<<"a">>, <<"x">>, <<>>, <<>>, <<>>)}
    \cup {EntradaEditar(<<"A">>, i, c[1], c[2], c[3]) :
            i \in {<<"1">>, <<"2">>},
            c \in {<<<<>>, <<>>, <<>>>>, <<tA_B, <<>>, <<>>>>, <<<<>>, t2020, <<>>>>,
                   <<<<>>, t1800, <<>>>>, <<<<>>, <<"x">>, <<"E">>>>}}

\* What the user types in borrar_auto.
EntradaBorrar(busqueda, indice, confirma) ==
    [busqueda |-> busqueda, indice |-> indice, confirma |-> confirma]

EntradasBorrar ==
    {EntradaBorrar(<<>>, <<>>, <<>>),
     EntradaBorrar(<<"z">>, <<>>, <<>>),
     EntradaBorrar(<<"a">>, <<"x">>, <<>>)}
    \cup {EntradaBorrar(<<"A">>, i, c) :
            i \in {<<" ", "1">>, <<"2">>}, c \in {<<" ", "s">>, <<"n">>}}

\* The rows of the central file the session starts from.
FilaInicio(marca, anio) == <<marca, <<"K">>, anio, <<"N">>, <<"M">>>>

ArchivoDeFilas(filas) ==
    <<"BOM">> \o writerow(fieldnames)
    \o Concatenar([i \in 1..Len(filas) |-> LineaCruda(filas[i])])

\* A row of the starting file is valid when its five columns are non-empty
\* after stripping and its year is an integer from 1900 to 2100.
FilaInicioValida(f) ==
    /\ \A i \in 1..5 : strip(f[i]) # <<>>
    /\ IntDeStr(f[3]).exc = ""
    /\ 1900 <= EnteroDeNumeral(IntDeStr(f[3]).val)
    /\ EnteroDeNumeral(IntDeStr(f[3]).val) <= 2100

\* The items the server holds: dicts of the JSON answer.
ItemApi(marca, anio, transmision) ==
    [Marca |-> Str(marca), Modelo |-> Str(<<"K">>), Anio |-> anio,
     TipoCombustible |-> Str(<<"N">>), Transmision |-> transmision]

MaxRemoto == 3

ItemOk == ItemApi(<<"C">>, Int_(t2020), Str(<<"M">>))

\* How the session starts: the rows of the central file and the items of
\* the server.
Inicios ==
    {[filas |-> <<>>,
      remoto |-> <<ItemOk, ItemApi(<<"D">>, Int_(t2020), Str(<<"M">>))>>],
     [filas |-> <<FilaInicio(tAB, t1800)>>,
      remoto |-> <<ItemOk, ItemApi(<<"D">>, Int_(t2020), Falta)>>],
     [filas |-> <<FilaInicio(<<" ">>, t2020)>>,
      remoto |-> <<ItemOk, ItemApi(<<"D">>, Str(<<"x">>), Str(<<"M">>))>>],
     [filas |-> <<FilaInicio(tAB, <<"i", "n", "f">>)>>, remoto |-> <<>>]}

SubgruposVacios == [a \in {Arboles[k] : k \in 1..Len(Arboles)} |-> [n \in {} |-> <<>>]]

Traza(op, guardo, lista, exc, sincronizo, resultado) ==
    [op |-> op, guardo |-> guardo, lista |-> lista, exc |-> exc,
     sincronizo |-> sincronizo, resultado |-> resultado]

\* The state when app/main.py starts: init_db has returned the path of the
\* central file.
Init ==
    /\ pc = "inicio"
    /\ excepcion = ""
    /\ MODO_API = FALSE
    /\ autos = <<>>
    /\ \E ini \in Inicios :
        /\ disco = [r \in Rutas |->
                       [central |-> ArchivoDeFilas(ini.filas),
                        subgrupos |-> SubgruposVacios]]
        /\ soloValidas = \A i \in 1..Len(ini.filas) : FilaInicioValida(ini.filas[i])
        /\ remoto = ini.remoto
    /\ traza = TrazaVacia
    /\ NormReposo
    /\ CsvReposo
    /\ ConsultaReposo

\* autos = leer_csv(db_path) at module level: an exception ends the process.
Arranque ==
    /\ pc = "inicio"
    /\ LET r == leer_csv(disco[db_path].central)
       IN  /\ autos' = [i \in 1..Len(r.autos) |-> AutoDeLeido(r.autos[i])]
           /\ excepcion' = r.exc
           /\ pc' = IF r.exc = "" THEN "modo" ELSE "caido"
    /\ traza' = traza
    /\ UNCHANGED <<MODO_API, disco, remoto, soloValidas, varsNorm, varsCsv,
                 varsConsulta>>

\* One pass of the loop of elegir_modo: the text typed at seleccion() and
\* whether api_client.estado_servidor() answers.
elegir_modo(texto, salud) ==
    LET op == IntDeStr(texto)
    IN  IF op.exc # "" THEN [MODO_API |-> MODO_API, pc |-> "modo"]
        ELSE CASE op.val = <<"1">> -> [MODO_API |-> FALSE, pc |-> "menu"]
               [] op.val = <<"2">> ->
                    [MODO_API |-> TRUE, pc |-> IF salud THEN "menu" ELSE "modo"]
               [] op.val = <<"3">> -> [MODO_API |-> MODO_API, pc |-> "fin"]
               [] OTHER -> [MODO_API |-> MODO_API, pc |-> "modo"]

ElegirModo ==
    /\ pc = "modo"
    /\ \E texto \in {<<"1">>, <<" ", "2">>, <<"3">>, <<"7">>, <<"x">>}, salud \in BOOLEAN :
        LET r == elegir_modo(texto, salud)
        IN  /\ MODO_API' = r.MODO_API
            /\ pc' = r.pc
    /\ traza' = traza
    /\ UNCHANGED <<excepcion, autos, disco, remoto, soloValidas, varsNorm, varsCsv,
                 varsConsulta>>

\* escribir_csv(db_path, autos) called from main: main catches only
\* ValueError, any other exception ends the process.
Guardar(op, nuevos, resultado, fallo) ==
    \E r \in {escribir_csv(disco[db_path], Dicts(nuevos), fallo)} :
        /\ autos' = nuevos
        /\ disco' = [disco EXCEPT ![db_path] = r.disco]
        /\ traza' = Traza(op, TRUE, Dicts(nuevos), r.exc, r.sincronizo, resultado)
        /\ pc' = IF r.exc \in {"", "ValueError"} THEN "menu" ELSE "caido"
        /\ excepcion' = IF r.exc \in {"", "ValueError"} THEN "" ELSE r.exc

\* case 7 without the test of MODO_API: agregar_auto(autos) in either mode.
MenuAgregarSinModo(entradas, fallos) ==
    /\ pc = "menu"
    /\ Len(autos) < MaxAutos
    /\ \E e \in entradas, fallo \in fallos :
        \E r \in {agregar_auto(autos, e)} :
            Guardar("agregar", r.autos, r.agregado, fallo)
    /\ UNCHANGED <<MODO_API, remoto, soloValidas, varsNorm, varsCsv,
                 varsConsulta>>

\* case 7, local: agregar_auto(autos); escribir_csv(db_path, autos), on
\* what the user types (one of entradas) and where the file system fails
\* (one of fallos).
MenuAgregarCon(entradas, fallos) ==
    /\ pc = "menu"
    /\ ~MODO_API
    /\ Len(autos) < MaxAutos
    /\ \E e \in entradas, fallo \in fallos :
        \E r \in {agregar_auto(autos, e)} :
            Guardar("agregar", r.autos, r.agregado, fallo)
    /\ UNCHANGED <<MODO_API, remoto, soloValidas, varsNorm, varsCsv,
                 varsConsulta>>

MenuAgregar == MenuAgregarCon(EntradasAgregar, Fallos)

\* case 8, local: editar_auto(autos); escribir_csv(db_path, autos)
MenuEditarCon(entradas, fallos) ==
    /\ pc = "menu"
    /\ ~MODO_API
    /\ \E e \in entradas, fallo \in fallos :
        \E editados \in {editar_auto(autos, e)} :
            Guardar("editar", editados, editados # autos, fallo)
    /\ UNCHANGED <<MODO_API, remoto, soloValidas, varsNorm, varsCsv,
                 varsConsulta>>

MenuEditar == MenuEditarCon(EntradasEditar, Fallos)

\* case 9, local: if borrar_auto(autos): escribir_csv(db_path, autos)
MenuBorrarCon(entradas, fallos) ==
    /\ pc = "menu"
    /\ ~MODO_API
    /\ \E e \in entradas, fallo \in fallos :
        \E r \in {borrar_auto(autos, e)} :
            IF r.borrado
            THEN Guardar("borrar", r.autos, TRUE, fallo)
            ELSE /\ traza' = Traza("borrar", FALSE, <<>>, "", FALSE, FALSE)
                 /\ UNCHANGED <<pc, excepcion, autos, disco>>
    /\ UNCHANGED <<MODO_API, remoto, soloValidas, varsNorm, varsCsv,
                 varsConsulta>>

MenuBorrar == MenuBorrarCon(EntradasBorrar, Fallos)

\* case 7, API: agregar_auto_api().  creado: api_client.crear_auto answers
\* with the created item; respuesta: what listar_autos answers afterwards.
MenuAgregarApiCon(respuestas, fallos) ==
    /\ pc = "menu"
    /\ MODO_API
    /\ Len(remoto) < MaxRemoto
    /\ \E e \in EntradasAgregarApi, creado \in BOOLEAN,
          respuesta \in respuestas, fallo \in fallos :
        \E r \in {PedirAuto(e)} :
            IF r.exc # "" \/ ~creado
            THEN /\ traza' = Traza("agregar_api", FALSE, <<>>, "", FALSE, FALSE)
                 /\ UNCHANGED <<remoto, disco>>
            ELSE \E s \in {sincronizar_api_con_local(
                               disco, Append(remoto, DictDeAuto(r.auto)),
                               respuesta, fallo)} :
                    /\ remoto' = Append(remoto, DictDeAuto(r.auto))
                    /\ disco' = s.disco
                    /\ traza' = Traza("agregar_api", s.guardo, s.lista, s.exc,
                                      s.sincronizo, TRUE)
    /\ UNCHANGED <<pc, excepcion, MODO_API, autos, soloValidas, varsNorm, varsCsv,
                 varsConsulta>>

MenuAgregarApi == MenuAgregarApiCon({"lista", "error"}, Fallos)

\* case 10: elegir_modo()
MenuCambiarModo ==
    /\ pc = "menu"
    /\ pc' = "modo"
    /\ traza' = traza
    /\ UNCHANGED <<excepcion, MODO_API, autos, disco, remoto, soloValidas,
                   varsNorm, varsCsv,
                 varsConsulta>>

\* case 11: salida(); break
MenuSalir ==
    /\ pc = "menu"
    /\ pc' = "fin"
    /\ traza' = traza
    /\ UNCHANGED <<excepcion, MODO_API, autos, disco, remoto, soloValidas,
                   varsNorm, varsCsv,
                 varsConsulta>>

\* case _ and the ValueError of int(input(...)) in menu_principal
MenuOpcionInvalida ==
    /\ pc = "menu"
    /\ \E texto \in {<<"0">>, <<"x">>} :
        \/ IntDeStr(texto).exc = "ValueError"
        \/ EnteroDeNumeral(IntDeStr(texto).val) \notin 1..11
    /\ UNCHANGED <<traza, pc, excepcion, MODO_API, autos, disco, remoto, soloValidas,
                   varsNorm, varsCsv,
                 varsConsulta>>

(***************************************************************************)
(* Claims about the session.                                               *)
(***************************************************************************)

\* The names of the files of the groups of lista by campo.
NombresDeGrupos(lista, campo) ==
    {limpiar_nombre_archivo(ClaveDeGrupo(lista[i], campo)) \o <<".csv">> :
        i \in 1..Len(lista)}

\* The last handler called escribir_csv and it returned normally.
GuardadoSinError == traza.guardo /\ traza.exc = ""

\* C1: after a save, each derived tree holds exactly one file per distinct
\* group value of the list just saved; a group value of an earlier save that
\* the latest list lacks leaves no file behind.
C1_SinArchivosViejos ==
    GuardadoSinError =>
        \A k \in 1..Len(Arboles) :
            DOMAIN disco[db_path].subgrupos[Arboles[k]]
                = NombresDeGrupos(traza.lista, CampoDeArbol(Arboles[k]))

\* The file of the group value clave in carpeta reads back as the records of
\* lista whose campo is clave, in the order of lista.
ArchivoDelGrupo(carpeta, lista, campo, clave) ==
    \E nombre \in {limpiar_nombre_archivo(clave) \o <<".csv">>} :
        /\ nombre \in DOMAIN carpeta
        /\ \E grupo \in {AutosDeGrupo(lista, campo, clave)} :
            leer_csv(carpeta[nombre]).autos
                = [i \in 1..Len(grupo) |-> AutoDeDict(grupo[i])]

\* C2: after a synchronization of the list R, for every distinct group value
\* v of every tree the file of v holds exactly the records of R whose field
\* equals v, in R's order, also when two values share a file name.
C2_ArchivoPorGrupo ==
    GuardadoSinError =>
        \A k \in 1..Len(Arboles), i \in 1..Len(traza.lista) :
            ArchivoDelGrupo(disco[db_path].subgrupos[Arboles[k]], traza.lista,
                            CampoDeArbol(Arboles[k]),
                            ClaveDeGrupo(traza.lista[i], CampoDeArbol(Arboles[k])))

\* C3: a failure raised while the derived views are synchronized is
\* swallowed: escribir_csv returns normally and the menu loop keeps running.
C3_FalloDeSincronizacionTragado ==
    traza.sincronizo => (traza.exc = "" /\ pc # "caido")

\* C4: the central file is rewritten atomically: whenever its content
\* changes, the new content is the header and all the records of the list
\* given to escribir_csv, never a prefix of them.
C4_ReescrituraAtomica ==
    [][\A r \in Rutas :
          disco'[r].central # disco[r].central =>
              \E w \in {EscribirArchivo(traza'.lista)} :
                  w.exc = "" /\ disco'[r].central = w.contenido]_vars

\* C5: at the main menu, in a session that started from a file of valid rows
\* only, the central file holds exactly the records of the list in memory.
C5_ArchivoIgualMemoria ==
    (pc = "menu" /\ soloValidas) =>
        \E r \in {leer_csv(disco[db_path].central)} :
            /\ r.exc = ""
            /\ r.filas_invalidas = 0
            /\ r.autos = [i \in 1..Len(autos) |-> AutoDeDict(DictDeAuto(autos[i]))]

\* Every group value of lista has its file in every tree, written from
\* records of lista that belong to a group of that file name.
VistasDerivadasDe(sub, lista) ==
    \A k \in 1..Len(Arboles), i \in 1..Len(lista) :
        \E campo \in {CampoDeArbol(Arboles[k])} :
        \E nombre \in {limpiar_nombre_archivo(ClaveDeGrupo(lista[i], campo)) \o <<".csv">>} :
            /\ nombre \in DOMAIN sub[Arboles[k]]
            /\ \E j \in 1..Len(lista) :
                /\ limpiar_nombre_archivo(ClaveDeGrupo(lista[j], campo)) \o <<".csv">> = nombre
                /\ sub[Arboles[k]][nombre]
                    = EscribirArchivo(
                          AutosDeGrupo(lista, campo, ClaveDeGrupo(lista[j], campo))).contenido

\* C6: in local mode a handler that changes the list in memory calls
\* escribir_csv with the full new list before the menu is shown again, and
\* unless the file system fails that call writes the central file and all
\* three views from that list; a borrar_auto that returns False saves nothing.
C6_CambioLocalGuardado ==
    [][(pc = "menu" /\ ~MODO_API) =>
          /\ autos' # autos =>
                /\ traza'.guardo
                /\ traza'.lista = Dicts(autos')
                /\ traza'.exc = "" =>
                      /\ traza'.sincronizo
                      /\ disco'[db_path].central = EscribirArchivo(traza'.lista).contenido
                      /\ VistasDerivadasDe(disco'[db_path].subgrupos, traza'.lista)
          /\ (traza'.op = "borrar" /\ ~traza'.resultado) =>
                (~traza'.guardo /\ disco' = disco /\ autos' = autos)]_vars

\* An edit changed one of two autos in memory and the save that followed
\* wrote the central file and the three views from the new list.
C6_Testigo ==
    /\ pc = "menu"
    /\ ~MODO_API
    /\ traza.op = "editar"
    /\ traza.resultado
    /\ traza.guardo
    /\ traza.exc = ""
    /\ Len(autos) = 2
    /\ traza.lista = Dicts(autos)
    /\ VistasDerivadasDe(disco[db_path].subgrupos, traza.lista)

\* C7: every auto in memory has non-empty Marca, Modelo, TipoCombustible and
\* Transmision and a year from 1900 to 2100, whatever file was read and
\* whatever was added, edited or deleted.
C7_AutosValidos ==
    pc \in {"modo", "menu"} =>
        \A i \in 1..Len(autos) :
            /\ autos[i].Marca # <<>>
            /\ autos[i].Modelo # <<>>
            /\ autos[i].TipoCombustible # <<>>
            /\ autos[i].Transmision # <<>>
            /\ 1900 <= autos[i].Anio
            /\ autos[i].Anio <= 2100

\* C23: when the user selects API mode and the health check fails, the mode
\* selection still ends in API mode: a pass of elegir_modo that sets the
\* mode flag to API leaves the selection loop and reaches the main menu,
\* whether or not estado_servidor answered.
C23_ModoApiSinSalud ==
    [][(pc = "modo" /\ ~MODO_API /\ MODO_API') => pc' = "menu"]_vars

(***************************************************************************)
(* Arithmetic on the numerals of Python ints: the year of an auto read     *)
(* from a file is any integer, so the queries hold it as its numeral.      *)
(***************************************************************************)

EsNegativo(x) == x # <<>> /\ Head(x) = "-"

\* abs(x)
Magnitud(x) == IF EsNegativo(x) THEN Tail(x) ELSE x

\* The numeral of the integer with this sign and magnitude; zero has no sign.
ConSigno(negativo, m) ==
    LET sinCeros == SinCerosIzq(m)
    IN  IF sinCeros = <<>> THEN <<"0">>
        ELSE IF negativo THEN <<"-">> \o sinCeros ELSE sinCeros

\* x < y for two ints
EnteroMenor(x, y) ==
    IF EsNegativo(x) /\ ~EsNegativo(y) THEN TRUE
    ELSE IF ~EsNegativo(x) /\ EsNegativo(y) THEN FALSE
    ELSE IF EsNegativo(x) THEN MagnitudMenor(Magnitud(y), Magnitud(x))
    ELSE MagnitudMenor(x, y)

\* x <= y for two ints
EnteroMenorIgual(x, y) == ~EnteroMenor(y, x)

UltimoValor(s) == IF s = <<>> THEN 0 ELSE ValorDigito(s[Len(s)])

SinUltimo(s) == IF s = <<>> THEN <<>> ELSE SubSeq(s, 1, Len(s) - 1)

RECURSIVE SumaConAcarreo(_, _, _)
\* a + b + acarreo for two magnitudes
SumaConAcarreo(a, b, acarreo) ==
    IF a = <<>> /\ b = <<>> THEN (IF acarreo = 0 THEN <<>> ELSE <<Digitos[acarreo + 1]>>)
    ELSE SumaConAcarreo(SinUltimo(a), SinUltimo(b),
                        (UltimoValor(a) + UltimoValor(b) + acarreo) \div 10)
         \o <<Digitos[((UltimoValor(a) + UltimoValor(b) + acarreo) % 10) + 1]>>

RECURSIVE RestaConPrestamo(_, _, _)
\* a - b - prestamo for two magnitudes, a >= b + prestamo
RestaConPrestamo(a, b, prestamo) ==
    IF a = <<>> THEN <<>>
    ELSE RestaConPrestamo(SinUltimo(a), SinUltimo(b),
                          IF UltimoValor(a) - UltimoValor(b) - prestamo < 0 THEN 1 ELSE 0)
         \o <<Digitos[((UltimoValor(a) - UltimoValor(b) - prestamo + 10) % 10) + 1]>>

\* x + y for two ints
EnteroSuma(x, y) ==
    IF EsNegativo(x) = EsNegativo(y)
    THEN ConSigno(EsNegativo(x), SumaConAcarreo(Magnitud(x), Magnitud(y), 0))
    ELSE IF MagnitudMenor(Magnitud(x), Magnitud(y))
    THEN ConSigno(EsNegativo(y), RestaConPrestamo(Magnitud(y), Magnitud(x), 0))
    ELSE ConSigno(EsNegativo(x), RestaConPrestamo(Magnitud(x), Magnitud(y), 0))

\* One step of the long division by n: the next digit of the quotient and
\* the new remainder.
PasoDeDivision(previo, digito, n) ==
    [cociente |-> previo.cociente \o <<Digitos[((previo.resto * 10 + digito) \div n) + 1]>>,
     resto |-> (previo.resto * 10 + digito) % n]

RECURSIVE DivisionLarga(_, _)
\* divmod(m, n) for a magnitude m and n in 1..9: [cociente, resto], the
\* quotient with leading zeros.
DivisionLarga(m, n) ==
    IF m = <<>> THEN [cociente |-> <<>>, resto |-> 0]
    ELSE PasoDeDivision(DivisionLarga(SinUltimo(m), n), UltimoValor(m), n)

\* 2^51 and 2^52
DosALa51 ==
    <<"2", "2", "5", "1", "7", "9", "9", "8", "1", "3", "6", "8", "5", "2", "4", "8">>
DosALa52 ==
    <<"4", "5", "0", "3", "5", "9", "9", "6", "2", "7", "3", "7", "0", "4", "9", "6">>

\* int(q + r/n rounded to float64) for the quotient q and the remainder r of
\* a division by n, 0 <= r < n < 8 and q < 2^54.  Below 2^51 the floats are
\* at most 1/4 apart and the rounded value stays below q + 1; from 2^51 they
\* are 1/2 apart, from 2^52 they are the integers, from 2^53 the even
\* integers; a tie goes to the float with the even mantissa.
TruncarFloat(q, r, n) ==
    IF MagnitudMenor(q, DosALa51) THEN q
    ELSE IF MagnitudMenor(q, DosALa52)
    THEN (IF 4 * r >= 3 * n THEN MagnitudMas1(q) ELSE q)
    ELSE IF MagnitudMenor(q, DosALa53)
    THEN (IF 2 * r > n \/ (2 * r = n /\ UltimoValor(q) % 2 = 1) THEN MagnitudMas1(q) ELSE q)
    ELSE IF UltimoValor(q) % 2 = 0 THEN q
    ELSE IF r > 0 \/ MagnitudMod4(MagnitudMas1(q)) = 0 THEN MagnitudMas1(q)
    ELSE MagnitudMenos1(q)

\* int(x / n) as Python computes it: x / n is the float64 nearest to the
\* quotient, int() drops its fraction.
TruncarDivision(division, negativo, n) ==
    ConSigno(negativo, TruncarFloat(ConSigno(FALSE, division.cociente), division.resto, n))

IntDeDivision(x, n) == TruncarDivision(DivisionLarga(Magnitud(x), n), EsNegativo(x), n)

\* The quotient x / n with its fraction dropped, exactly.
CocienteTruncado(x, n) == ConSigno(EsNegativo(x), DivisionLarga(Magnitud(x), n).cociente)

(***************************************************************************)
(* SpecConsulta: the queries of shearch.py, view.py and statistics.py, and *)
(* their API-mode wrappers of api_mode.py, each applied once to a list of  *)
(* autos.  A dict is a record; a key the dict lacks is a field the record  *)
(* lacks.                                                                  *)
(***************************************************************************)

\* The most autos in the list a query is given.
MaxConsulta == 3

\* dict.get(clave, defecto)
get(d, clave, defecto) == IF clave \in DOMAIN d THEN d[clave] ELSE defecto

\* The dict has the five keys of an auto.
BienFormado(a) ==
    {"Marca", "Modelo", "Anio", "TipoCombustible", "Transmision"} \subseteq DOMAIN a

\* An auto of a list in memory; its year is the numeral of the int.
AutoConsulta(marca, modelo, anio, combustible, transmision) ==
    [Marca |-> marca, Modelo |-> modelo, Anio |-> anio,
     TipoCombustible |-> combustible, Transmision |-> transmision]

qAb == AutoConsulta(<<"A_acute", "b">>, <<"k">>, NumeralDeEntero(2020), <<"a">>, <<"B">>)
qK == AutoConsulta(<<"k">>, <<"a", "B">>, NumeralDeEntero(1999), <<"b">>, <<"a_acute">>)
qB == AutoConsulta(<<"b">>, <<"b">>, NumeralDeEntero(2020), <<"A">>, <<"B", "k">>)

\* An item of the server that has no "Transmisión" key.
qSinTransmision ==
    [Marca |-> <<"a">>, Modelo |-> <<"k">>, Anio |-> NumeralDeEntero(2005),
     TipoCombustible |-> <<"a">>]

AutosConsulta == {qAb, qK, qB, qSinTransmision}

\* The most autos in a list of autos whose years are far from 1900..2100.
MaxExtremos == 2

\* Autos of the years 2000 and 2010, and autos as leer_csv accepts them from
\* a file, whatever the year: -2005, 2^53 and 2^53 + 2 (both float64).
AutosExtremos ==
    {AutoConsulta(<<"a">>, <<"k">>, anio, <<"a">>, <<"b">>) :
        anio \in {NumeralDeEntero(2000), NumeralDeEntero(2010), NumeralDeEntero(-2005),
                  DosALa53, MagnitudMas1(MagnitudMas1(DosALa53))}}

\* The texts typed at the prompts of the queries.
TextosConsulta ==
    {<<"a">>, <<"a", "b">>, <<" ", "A_acute", "B">>, <<"B", " ">>, <<"k">>, <<"x">>}

Salida(op, entrada, exc, mensaje, lista, extra) ==
    [op |-> op, entrada |-> entrada, exc |-> exc, mensaje |-> mensaje,
     lista |-> lista, extra |-> extra]

InitConsulta ==
    /\ qFase = "inicio"
    /\ qAutos \in ListasHasta(AutosConsulta, MaxConsulta)
                     \cup ListasHasta(AutosExtremos, MaxExtremos)
    /\ qSalida = SalidaVacia
    /\ NormReposo
    /\ CsvReposo
    /\ SesionReposo

\* main.autos holds dicts with the five keys: leer_csv and agregar_auto build
\* no other.
ListaLocal(lista) == \A i \in 1..Len(lista) : BienFormado(lista[i])

\* view.mostrar_autos: prints every auto of the list; a['...'] raises
\* KeyError for a key the dict lacks.
mostrar_autos(lista_autos) ==
    IF ListaLocal(lista_autos) THEN "" ELSE "KeyError"

RECURSIVE BuscarSoloMarca(_, _, _, _)
\* buscar_auto_recursivo without the test of Modelo.
BuscarSoloMarca(lista, busqueda, indice, encontrados) ==
    IF indice >= Len(lista) THEN encontrados
    ELSE LET auto_actual == lista[indice + 1]
             busqueda_norm == normalizar(busqueda)
             marca_norm == normalizar(get(auto_actual, "Marca", <<>>))
         IN  BuscarSoloMarca(lista, busqueda, indice + 1,
                 IF Contiene(marca_norm, busqueda_norm)
                 THEN Append(encontrados, auto_actual)
                 ELSE encontrados)

RECURSIVE buscar_auto_recursivo(_, _, _, _)
\* shearch.buscar_auto_recursivo(autos, busqueda, indice, encontrados);
\* encontrados=None is the empty list.
buscar_auto_recursivo(lista, busqueda, indice, encontrados) ==
    IF indice >= Len(lista) THEN encontrados
    ELSE LET auto_actual == lista[indice + 1]
             busqueda_norm == normalizar(busqueda)
             marca_norm == normalizar(get(auto_actual, "Marca", <<>>))
             modelo_norm == normalizar(get(auto_actual, "Modelo", <<>>))
         IN  buscar_auto_recursivo(lista, busqueda, indice + 1,
                 IF \/ Contiene(marca_norm, busqueda_norm)
                    \/ Contiene(modelo_norm, busqueda_norm)
                 THEN Append(encontrados, auto_actual)
                 ELSE encontrados)

\* What a query that computed the list `resultados` prints: the list, or the
\* message that nothing was found.
Mostrar(op, entrada, resultados) ==
    IF resultados # <<>>
    THEN Salida(op, entrada, mostrar_autos(resultados), "lista", resultados, <<>>)
    ELSE Salida(op, entrada, "", "ninguno", <<>>, <<>>)

\* shearch.buscar_auto
buscar_auto(lista, busqueda) ==
    Mostrar("buscar", busqueda, buscar_auto_recursivo(lista, busqueda, 0, <<>>))

\* main, case 1 in local mode: the text typed, stripped and not empty, is
\* given to buscar_auto.
Buscar ==
    /\ qFase = "inicio"
    /\ ListaLocal(qAutos)
    /\ \E texto \in TextosConsulta :
        /\ strip(texto) # <<>>
        /\ qSalida' = buscar_auto(qAutos, strip(texto))
    /\ qFase' = "hecho"
    /\ UNCHANGED <<qAutos, varsNorm, varsCsv, varsSesion>>

\* The auto has the normalized text in its normalized Marca or Modelo.
CoincideMarcaOModelo(a, texto) ==
    \/ Contiene(normalizar(a.Marca), normalizar(texto))
    \/ Contiene(normalizar(a.Modelo), normalizar(texto))

\* The autos of lista, in the order of lista, whose field has the
\* normalized text in its normalized value.
LosQueContienen(lista, campo, texto) ==
    LET Tiene(a) == Contiene(normalizar(a[campo]), normalizar(texto))
    IN  SelectSeq(lista, Tiene)

\* C11: the search returns exactly the autos of the list whose normalized
\* Marca or normalized Modelo contains the normalized search text, each once
\* and in the order of the list.
C11_BusquedaExacta ==
    (qFase = "hecho" /\ qSalida.op = "buscar") =>
        LET Coincide(a) == CoincideMarcaOModelo(a, qSalida.entrada)
        IN  /\ qSalida.lista = SelectSeq(qAutos, Coincide)
            /\ qSalida.exc = ""

\* A search for "ÁB" in three autos returned the first and the third and
\* left out the second: one matches by its Modelo only, the other by its
\* Marca only, both through case and accent folding.
C11_Testigo ==
    /\ qFase = "hecho"
    /\ qSalida.op = "buscar"
    /\ qSalida.entrada = <<"A_acute", "B">>
    /\ qAutos = <<qK, qB, qAb>>
    /\ qSalida.lista = <<qK, qAb>>

\* [a for a in autos if texto_norm in normalizar(a[campo])]: the list, or
\* KeyError at the first auto that lacks the key.
FiltrarPorCampo(op, lista, campo, texto) ==
    IF \E i \in 1..Len(lista) : campo \notin DOMAIN lista[i]
    THEN Salida(op, texto, "KeyError", "", <<>>, <<>>)
    ELSE LET texto_norm == normalizar(texto)
             Tiene(a) == Contiene(normalizar(a[campo]), texto_norm)
         IN  Mostrar(op, texto, SelectSeq(lista, Tiene))

\* shearch.filtrar_combustible
filtrar_combustible(lista, tipo_combustible) ==
    FiltrarPorCampo("filtrar_combustible", lista, "TipoCombustible", tipo_combustible)

\* filtrar_transmision that compares the text as typed with the field as
\* stored.
FiltrarTransmisionSinNormalizar(lista, transmision) ==
    LET Tiene(a) == Contiene(a.Transmision, transmision)
    IN  Mostrar("filtrar_transmision", transmision, SelectSeq(lista, Tiene))

\* shearch.filtrar_transmision
filtrar_transmision(lista, transmision) ==
    FiltrarPorCampo("filtrar_transmision", lista, "Transmision", transmision)

\* main, case 2 in local mode.
FiltrarCombustible ==
    /\ qFase = "inicio"
    /\ ListaLocal(qAutos)
    /\ \E texto \in TextosConsulta :
        /\ strip(texto) # <<>>
        /\ qSalida' = filtrar_combustible(qAutos, strip(texto))
    /\ qFase' = "hecho"
    /\ UNCHANGED <<qAutos, varsNorm, varsCsv, varsSesion>>

\* main, case 4 in local mode.
FiltrarTransmision ==
    /\ qFase = "inicio"
    /\ ListaLocal(qAutos)
    /\ \E texto \in TextosConsulta :
        /\ strip(texto) # <<>>
        /\ qSalida' = filtrar_transmision(qAutos, strip(texto))
    /\ qFase' = "hecho"
    /\ UNCHANGED <<qAutos, varsNorm, varsCsv, varsSesion>>

\* C12: filtrar_combustible and filtrar_transmision select exactly the autos
\* whose normalized TipoCombustible (respectively Transmision) contains the
\* normalized text, in the order of the list: the substring test of the
\* search, blind to case and accents.
C12_FiltroPorCampoExacto ==
    /\ (qFase = "hecho" /\ qSalida.op = "filtrar_combustible") =>
          /\ qSalida.exc = ""
          /\ qSalida.lista = LosQueContienen(qAutos, "TipoCombustible", qSalida.entrada)
    /\ (qFase = "hecho" /\ qSalida.op = "filtrar_transmision") =>
          /\ qSalida.exc = ""
          /\ qSalida.lista = LosQueContienen(qAutos, "Transmision", qSalida.entrada)
          /\ \A i \in 1..Len(qAutos) :
                (qSalida.entrada = <<"a">> /\ qAutos[i].Transmision = <<"a_acute">>)
                    => \E j \in 1..Len(qSalida.lista) : qSalida.lista[j] = qAutos[i]

\* The filter by transmission for "B" in three autos selected the first and
\* the third, whose Transmision are "B" and "Bk", and left out "á".
C12_Testigo ==
    /\ qFase = "hecho"
    /\ qSalida.op = "filtrar_transmision"
    /\ qSalida.entrada = <<"B">>
    /\ qAutos = <<qAb, qK, qB>>
    /\ qSalida.lista = <<qAb, qB>>

\* api_client.listar_autos: the query parameters of the GET request, from
\* the arguments that are not None, "" or False.
ParametrosDeListar(q, tipo_combustible, ordenar_por, descendente) ==
    (IF q # <<>> THEN {"q"} ELSE {})
    \cup (IF tipo_combustible # <<>> THEN {"TipoCombustible"} ELSE {})
    \cup (IF ordenar_por # <<>> THEN {"sort_by"} ELSE {})
    \cup (IF descendente THEN {"desc"} ELSE {})

\* How the server answers a request: a JSON array, a payload that is not an
\* array, or an error.
RespuestasConsulta == {"lista", "no_lista", "error"}

\* What an API-mode query prints when obtener_autos_api returned [].
SinAutosApi(op, entrada, params, respuesta) ==
    Salida(op, entrada, "", "sin_autos", <<>>, [params |-> params, respuesta |-> respuesta])

\* What an API-mode query prints from the local query it ended in.
ConPeticion(salida, op, params, respuesta) ==
    [salida EXCEPT !.op = op, !.extra = [params |-> params, respuesta |-> respuesta]]

\* filtrar_transmision_api that compares the text as typed with the field
\* as the server sent it.
FiltrarTransmisionApiSinNormalizar(coleccion, respuesta, transmision) ==
    LET params == ParametrosDeListar(<<>>, <<>>, <<>>, FALSE)
        lista == obtener_autos_api(coleccion, respuesta)
        Tiene(a) == Contiene(get(a, "Transmision", <<>>), transmision)
    IN  IF lista = <<>>
        THEN SinAutosApi("filtrar_transmision_api", transmision, params, respuesta)
        ELSE ConPeticion(Mostrar("", transmision, SelectSeq(lista, Tiene)),
                         "filtrar_transmision_api", params, respuesta)

\* api_mode.filtrar_transmision_api on the collection the server holds.
filtrar_transmision_api(coleccion, respuesta, transmision) ==
    LET params == ParametrosDeListar(<<>>, <<>>, <<>>, FALSE)
        lista == obtener_autos_api(coleccion, respuesta)
        Tiene(a) == Contiene(normalizar(get(a, "Transmision", <<>>)),
                             normalizar(transmision))
    IN  IF lista = <<>>
        THEN SinAutosApi("filtrar_transmision_api", transmision, params, respuesta)
        ELSE ConPeticion(Mostrar("", transmision, SelectSeq(lista, Tiene)),
                         "filtrar_transmision_api", params, respuesta)

\* main, case 4 in API mode: qAutos is the collection of the server.
FiltrarTransmisionApi ==
    /\ qFase = "inicio"
    /\ \E texto \in TextosConsulta, respuesta \in RespuestasConsulta :
        /\ strip(texto) # <<>>
        /\ qSalida' = filtrar_transmision_api(qAutos, respuesta, strip(texto))
    /\ qFase' = "hecho"
    /\ UNCHANGED <<qAutos, varsNorm, varsCsv, varsSesion>>

\* C13: in API mode the filter by transmission asks for the collection with
\* no query parameter and filters in process: on a collection of well-formed
\* autos that the server delivers it selects exactly the autos the local
\* filtrar_transmision selects from that collection.
C13_FiltroApiIgualLocal ==
    (qFase = "hecho" /\ qSalida.op = "filtrar_transmision_api") =>
        /\ qSalida.extra.params = {}
        /\ (ListaLocal(qAutos) /\ qSalida.extra.respuesta = "lista") =>
              /\ qSalida.exc = ""
              /\ qSalida.lista = filtrar_transmision(qAutos, qSalida.entrada).lista

\* The API filter for "a" on a delivered collection of three well-formed
\* autos selected the one whose Transmision is "á", as the local filter does.
C13_Testigo ==
    /\ qFase = "hecho"
    /\ qSalida.op = "filtrar_transmision_api"
    /\ qSalida.extra.respuesta = "lista"
    /\ qSalida.entrada = <<"a">>
    /\ qAutos = <<qAb, qK, qB>>
    /\ qSalida.lista = <<qK>>
    /\ filtrar_transmision(qAutos, <<"a">>).lista = <<qK>>

\* str.isdigit(): not empty and every code point is a digit; the superscript
\* two ("sup2", U+00B2) is a digit for isdigit and not for int().
isdigit(s) == s # <<>> /\ \A i \in 1..Len(s) : EsDigito(s[i]) \/ s[i] = "sup2"

\* shearch._leer_entero_no_negativo on the text typed: [exc, none, val].
leer_entero_no_negativo(respuesta) ==
    LET s == strip(respuesta)
    IN  IF ~isdigit(s) THEN [exc |-> "", none |-> TRUE, val |-> <<>>]
        ELSE [exc |-> IntDeStr(s).exc, none |-> FALSE, val |-> IntDeStr(s).val]

\* The texts typed at the two prompts of filtrar_año.
TextosAnio ==
    {<<"2", "0", "0", "0">>, <<"2", "0", "2", "0">>, <<" ", "1", "9", "9", "9">>,
     <<"x">>, <<"sup2">>}

\* What filtrar_año prints is Salida("filtrar_anio", ...), with
\* [evaluado] telling whether the list was filtered.

\* The range filter of filtrar_año, evaluated.
EnRango(lista, respuestas, minimo, maximo) ==
    LET Dentro(a) == /\ EnteroMenorIgual(minimo, get(a, "Anio", <<"-", "1">>))
                     /\ EnteroMenorIgual(get(a, "Anio", <<"-", "1">>), maximo)
        resultado == SelectSeq(lista, Dentro)
    IN  IF resultado # <<>>
        THEN Salida("filtrar_anio", respuestas, mostrar_autos(resultado), "lista", resultado,
                    [evaluado |-> TRUE])
        ELSE Salida("filtrar_anio", respuestas, "", "ninguno", <<>>,
                    [evaluado |-> TRUE])

\* filtrar_año that filters whatever the two numbers are.
FiltrarAnioSinRechazo(lista, respuestas) ==
    LET minimo == leer_entero_no_negativo(respuestas[1])
        maximo == leer_entero_no_negativo(respuestas[2])
    IN  IF minimo.exc # "" \/ minimo.none
        THEN Salida("filtrar_anio", <<respuestas[1]>>, minimo.exc, "entrada_invalida", <<>>,
                    [evaluado |-> FALSE])
        ELSE IF maximo.exc # "" \/ maximo.none
        THEN Salida("filtrar_anio", respuestas, maximo.exc, "entrada_invalida", <<>>,
                    [evaluado |-> FALSE])
        ELSE EnRango(lista, respuestas, minimo.val, maximo.val)

\* shearch.filtrar_año with the texts typed at its two prompts; the second
\* prompt is not shown when the first answer is rejected.
filtrar_anio(lista, respuestas) ==
    LET minimo == leer_entero_no_negativo(respuestas[1])
        maximo == leer_entero_no_negativo(respuestas[2])
    IN  IF minimo.exc # ""
        THEN Salida("filtrar_anio", <<respuestas[1]>>, minimo.exc, "", <<>>,
                    [evaluado |-> FALSE])
        ELSE IF minimo.none
        THEN Salida("filtrar_anio", <<respuestas[1]>>, "", "entrada_invalida", <<>>,
                    [evaluado |-> FALSE])
        ELSE IF maximo.exc # ""
        THEN Salida("filtrar_anio", respuestas, maximo.exc, "", <<>>,
                    [evaluado |-> FALSE])
        ELSE IF maximo.none
        THEN Salida("filtrar_anio", respuestas, "", "entrada_invalida", <<>>,
                    [evaluado |-> FALSE])
        ELSE IF EnteroMenor(maximo.val, minimo.val)
        THEN Salida("filtrar_anio", respuestas, "", "rango_invertido", <<>>,
                    [evaluado |-> FALSE])
        ELSE EnRango(lista, respuestas, minimo.val, maximo.val)

\* api_mode.filtrar_año_api: nothing is asked when obtener_autos_api
\* returned [].
filtrar_anio_api(coleccion, respuesta, respuestas) ==
    LET params == ParametrosDeListar(<<>>, <<>>, <<>>, FALSE)
        lista == obtener_autos_api(coleccion, respuesta)
    IN  IF lista = <<>>
        THEN Salida("filtrar_anio_api", <<>>, "", "sin_autos", <<>>,
                    [evaluado |-> FALSE, params |-> params, respuesta |-> respuesta])
        ELSE LET s == filtrar_anio(lista, respuestas)
             IN  [s EXCEPT !.op = "filtrar_anio_api",
                           !.extra = [evaluado |-> s.extra.evaluado, params |-> params,
                                      respuesta |-> respuesta]]

\* main, case 3 in local mode.
FiltrarAnio ==
    /\ qFase = "inicio"
    /\ ListaLocal(qAutos)
    /\ \E tmin \in TextosAnio, tmax \in TextosAnio :
        qSalida' = filtrar_anio(qAutos, <<tmin, tmax>>)
    /\ qFase' = "hecho"
    /\ UNCHANGED <<qAutos, varsNorm, varsCsv, varsSesion>>

\* main, case 3 in API mode: qAutos is the collection of the server.
FiltrarAnioApi ==
    /\ qFase = "inicio"
    /\ \E tmin \in TextosAnio, tmax \in TextosAnio, respuesta \in RespuestasConsulta :
        qSalida' = filtrar_anio_api(qAutos, respuesta, <<tmin, tmax>>)
    /\ qFase' = "hecho"
    /\ UNCHANGED <<qAutos, varsNorm, varsCsv, varsSesion>>

\* The two texts typed are non-negative integers, the first greater than
\* the second.
RangoInvertido(entrada) ==
    /\ Len(entrada) = 2
    /\ \A i \in 1..2 : SonDigitos(strip(entrada[i])) /\ strip(entrada[i]) # <<>>
    /\ EnteroMenor(IntDeStr(entrada[2]).val, IntDeStr(entrada[1]).val)

\* C14: in local mode and in API mode, a year range whose minimum is greater
\* than its maximum is rejected: filtrar_año reports the inverted range and
\* returns without filtering, which is not the outcome "no autos in that
\* range" of a well-formed range; that outcome comes only from a range that
\* is not inverted and holds no auto.
C14_RangoInvertidoRechazado ==
    (qFase = "hecho" /\ qSalida.op \in {"filtrar_anio", "filtrar_anio_api"}) =>
        /\ RangoInvertido(qSalida.entrada) =>
              /\ qSalida.mensaje = "rango_invertido"
              /\ ~qSalida.extra.evaluado
              /\ qSalida.lista = <<>>
              /\ qSalida.exc = ""
        /\ qSalida.mensaje = "ninguno" =>
              /\ ~RangoInvertido(qSalida.entrada)
              /\ qSalida.extra.evaluado
              /\ \A i \in 1..Len(qAutos) :
                    \/ EnteroMenor(get(qAutos[i], "Anio", <<"-", "1">>),
                                   IntDeStr(qSalida.entrada[1]).val)
                    \/ EnteroMenor(IntDeStr(qSalida.entrada[2]).val,
                                   get(qAutos[i], "Anio", <<"-", "1">>))

\* In API mode the range 2020 to 2000 was typed for a delivered collection
\* that holds an auto of 2020 and one of 1999, and it was rejected.
C14_Testigo ==
    /\ qFase = "hecho"
    /\ qSalida.op = "filtrar_anio_api"
    /\ qSalida.extra.respuesta = "lista"
    /\ qAutos = <<qAb, qK>>
    /\ qSalida.entrada = <<<<"2", "0", "2", "0">>, <<"2", "0", "0", "0">>>>
    /\ qSalida.mensaje = "rango_invertido"

(***************************************************************************)
(* view.ordenar_autos                                                      *)
(***************************************************************************)

\* ord(c): the number of the code point, by which Python compares strs.
ord(c) ==
    LET Letras ==
            <<"a", "b", "c", "d", "e", "f", "g", "h", "i", "j", "k", "l", "m",
              "n", "o", "p", "q", "r", "s", "t", "u", "v", "w", "x", "y", "z">>
    IN
    IF \E i \in 1..26 : Letras[i] = c
    THEN 96 + (CHOOSE i \in 1..26 : Letras[i] = c)
    ELSE CASE c = " " -> 32
           [] c = "-" -> 45
           [] c = "/" -> 47
           [] c = "A" -> 65
           [] c = "B" -> 66
           [] c = "C" -> 67
           [] c = "D" -> 68
           [] c = "E" -> 69
           [] c = "K" -> 75
           [] c = "M" -> 77
           [] c = "N" -> 78
           [] c = "a_acute" -> 225
           [] c = "A_acute" -> 193
           [] c = "n_tilde" -> 241
           [] c = "U0301" -> 769
           [] c = "U0303" -> 771

\* a < b for two strs: at the first position where they differ the code
\* point of a is the smaller, or a is a proper prefix of b.
StrMenor(a, b) ==
    \/ /\ Len(a) < Len(b)
       /\ SubSeq(b, 1, Len(a)) = a
    \/ \E i \in 1..Len(a) :
        /\ i <= Len(b)
        /\ SubSeq(a, 1, i - 1) = SubSeq(b, 1, i - 1)
        /\ ord(a[i]) < ord(b[i])

\* k1 < k2 for two sort keys: two ints or two strs.
ClaveMenor(k1, k2, numerico) ==
    IF numerico THEN EnteroMenor(k1, k2) ELSE StrMenor(k1, k2)

\* One step of a stable sort: p goes before the first element that must
\* follow it, after every element it does not precede.
InsertarOrdenado(s, p, numerico, reverse) ==
    LET Despues(j) == IF reverse THEN ClaveMenor(s[j].clave, p.clave, numerico)
                      ELSE ClaveMenor(p.clave, s[j].clave, numerico)
        siguientes == {j \in 1..Len(s) : Despues(j)}
        corte == IF siguientes = {} THEN Len(s) + 1
                 ELSE CHOOSE j \in siguientes : \A h \in siguientes : j <= h
    IN  SubSeq(s, 1, corte - 1) \o <<p>> \o SubSeq(s, corte, Len(s))

RECURSIVE OrdenarHasta(_, _, _, _)
\* The first k pairs, sorted.
OrdenarHasta(pares, k, numerico, reverse) ==
    IF k = 0 THEN <<>>
    ELSE InsertarOrdenado(OrdenarHasta(pares, k - 1, numerico, reverse), pares[k],
                          numerico, reverse)

Invertir(s) == [i \in 1..Len(s) |-> s[Len(s) + 1 - i]]

\* sorted(...) whose reverse=True sorts ascending and reverses the result.
SortedInvirtiendo(pares, numerico, reverse) ==
    IF reverse THEN Invertir(OrdenarHasta(pares, Len(pares), numerico, FALSE))
    ELSE OrdenarHasta(pares, Len(pares), numerico, FALSE)

\* sorted(autos, key=..., reverse=...) on the pairs [clave, auto]: Python's
\* sort is stable, with reverse=True as well.
sorted(pares, numerico, reverse) == OrdenarHasta(pares, Len(pares), numerico, reverse)

\* The tokens of the if/elif chain of ordenar_autos.
tk ==
    [marca |-> <<"m", "a", "r", "c", "a">>,
     modelo |-> <<"m", "o", "d", "e", "l", "o">>,
     anio |-> <<"a", "n_tilde", "o">>,
     ano |-> <<"a", "n", "o">>,
     combustible |-> <<"c", "o", "m", "b", "u", "s", "t", "i", "b", "l", "e">>,
     tipo |-> <<"t", "i", "p", "o">>,
     transmision |-> <<"t", "r", "a", "n", "s", "m", "i", "s", "i", "o", "n">>]

\* The chain that falls back to Marca instead of rejecting the field.
CampoDeOrdenPorDefecto(campo_norm) ==
    IF Contiene(campo_norm, tk.modelo) THEN "Modelo"
    ELSE IF Contiene(campo_norm, tk.anio) \/ Contiene(campo_norm, tk.ano) THEN "Anio"
    ELSE IF Contiene(campo_norm, tk.combustible) \/ Contiene(campo_norm, tk.tipo)
    THEN "TipoCombustible"
    ELSE IF Contiene(campo_norm, tk.transmision) THEN "Transmision"
    ELSE "Marca"

\* The if/elif chain of ordenar_autos: campo_orden, "" when no test holds.
CampoDeOrden(campo_norm) ==
    IF Contiene(campo_norm, tk.marca) THEN "Marca"
    ELSE IF Contiene(campo_norm, tk.modelo) THEN "Modelo"
    ELSE IF Contiene(campo_norm, tk.anio) \/ Contiene(campo_norm, tk.ano) THEN "Anio"
    ELSE IF Contiene(campo_norm, tk.combustible) \/ Contiene(campo_norm, tk.tipo)
    THEN "TipoCombustible"
    ELSE IF Contiene(campo_norm, tk.transmision) THEN "Transmision"
    ELSE ""

\* The sort key of an auto: normalizar(str(x[campo_orden])) for a text
\* field, x[campo_orden] for Año.
ClaveDeOrden(a, campo_orden) ==
    IF campo_orden = "Anio" THEN a.Anio ELSE normalizar(a[campo_orden])

\* view.ordenar_autos: every exception of the sort and of the printing is
\* caught and reported.
ordenar_autos(lista, campo, descendente) ==
    LET campo_orden == CampoDeOrden(normalizar(campo))
        pares == [i \in 1..Len(lista) |->
                    [clave |-> ClaveDeOrden(lista[i], campo_orden), auto |-> lista[i]]]
        ordenados == sorted(pares, campo_orden = "Anio", descendente)
    IN  IF campo_orden = ""
        THEN Salida("ordenar", <<campo, descendente>>, "", "campo_invalido", <<>>,
                    [campo_orden |-> ""])
        ELSE IF ~ListaLocal(lista)
        THEN Salida("ordenar", <<campo, descendente>>, "", "error", <<>>,
                    [campo_orden |-> campo_orden])
        ELSE Salida("ordenar", <<campo, descendente>>, "", "ordenados",
                    [i \in 1..Len(lista) |-> ordenados[i].auto],
                    [campo_orden |-> campo_orden])

\* The texts typed at the prompt of the field, in lower case as main passes
\* them on.
CamposConsulta ==
    {tk.marca, tk.modelo, tk.anio, tk.ano, tk.combustible, tk.tipo, tk.transmision,
     tk.tipo \o <<" ", "d", "e", " ">> \o tk.transmision,
     <<"p", "o", "r", " ">> \o tk.anio,
     <<"x">>,
     <<"p", "r", "e", "c", "i", "o">>}

\* main, case 5 in local mode.
Ordenar ==
    /\ qFase = "inicio"
    /\ ListaLocal(qAutos)
    /\ \E texto \in CamposConsulta, desc_input \in {<<"s">>, <<"n">>} :
        /\ lower(strip(texto)) # <<>>
        /\ qSalida' = ordenar_autos(qAutos, lower(strip(texto)), desc_input = <<"s">>)
    /\ qFase' = "hecho"
    /\ UNCHANGED <<qAutos, varsNorm, varsCsv, varsSesion>>

\* api_mode.ordenar_autos_api: the server is asked for the collection sorted
\* its way, and ordenar_autos sorts what it delivers.
ordenar_autos_api(coleccion, respuesta, campo, descendente) ==
    LET params == ParametrosDeListar(<<>>, <<>>, campo, descendente)
        lista == obtener_autos_api(coleccion, respuesta)
    IN  IF lista = <<>>
        THEN Salida("ordenar_api", <<campo, descendente>>, "", "sin_autos", <<>>,
                    [campo_orden |-> "", params |-> params, respuesta |-> respuesta])
        ELSE LET s == ordenar_autos(lista, campo, descendente)
             IN  [s EXCEPT !.op = "ordenar_api",
                           !.extra = [campo_orden |-> s.extra.campo_orden,
                                      params |-> params, respuesta |-> respuesta]]

\* main, case 5 in API mode: qAutos is the collection as the server
\* delivers it.
OrdenarApi ==
    /\ qFase = "inicio"
    /\ \E texto \in CamposConsulta, desc_input \in {<<"s">>, <<"n">>},
          respuesta \in RespuestasConsulta :
        /\ lower(strip(texto)) # <<>>
        /\ qSalida' = ordenar_autos_api(qAutos, respuesta, lower(strip(texto)),
                                        desc_input = <<"s">>)
    /\ qFase' = "hecho"
    /\ UNCHANGED <<qAutos, varsNorm, varsCsv, varsSesion>>

\* The list was sorted and shown.
Ordenado == qFase = "hecho" /\ qSalida.op = "ordenar" /\ qSalida.mensaje = "ordenados"

\* How often the auto occurs in the list.
Veces(lista, a) == Cardinality({i \in 1..Len(lista) : lista[i] = a})

\* The autos of the list that have the sort key of the auto a, in the order
\* of the list.
ConLaClaveDe(lista, a, campo_orden) ==
    LET Igual(b) == ClaveDeOrden(b, campo_orden) = ClaveDeOrden(a, campo_orden)
    IN  SelectSeq(lista, Igual)

\* C15: ordenar_autos shows a permutation of its list, ordered by the key
\* (the normalized string of a text field, the integer of Año): no key is
\* followed by a smaller one when ascending, none by a greater one when
\* descending, and in both directions autos with equal keys keep the order
\* they had in the list.
C15_OrdenEstable ==
    Ordenado =>
        LET campo_orden == qSalida.extra.campo_orden
            numerico == campo_orden = "Anio"
            descendente == qSalida.entrada[2]
            salida == qSalida.lista
            Clave(a) == ClaveDeOrden(a, campo_orden)
        IN  /\ Len(salida) = Len(qAutos)
            /\ \A i \in 1..Len(qAutos) : Veces(salida, qAutos[i]) = Veces(qAutos, qAutos[i])
            /\ \A i \in 1..Len(salida), j \in 1..Len(salida) :
                  i < j => IF descendente
                           THEN ~ClaveMenor(Clave(salida[i]), Clave(salida[j]), numerico)
                           ELSE ~ClaveMenor(Clave(salida[j]), Clave(salida[i]), numerico)
            /\ \A i \in 1..Len(qAutos) :
                  ConLaClaveDe(salida, qAutos[i], campo_orden)
                      = ConLaClaveDe(qAutos, qAutos[i], campo_orden)
            /\ (campo_orden = "Anio" /\ qAutos = <<qAb, qK, qB>> /\ ~descendente)
                  => salida = <<qK, qAb, qB>>
            /\ (campo_orden = "Marca" /\ qAutos = <<qK, qB, qAb>> /\ ~descendente)
                  => salida = <<qAb, qB, qK>>
            /\ (campo_orden = "TipoCombustible" /\ qAutos = <<qB, qK, qAb>>)
                  => salida = IF descendente THEN <<qK, qB, qAb>> ELSE <<qB, qAb, qK>>

\* Autos of the years 2020, 1999, 2020 were sorted by year, descending: the
\* two autos of 2020 come first, in the order they had in the list.
C15_Testigo ==
    /\ Ordenado
    /\ qSalida.extra.campo_orden = "Anio"
    /\ qSalida.entrada[2]
    /\ qAutos = <<qAb, qK, qB>>
    /\ qSalida.lista = <<qAb, qB, qK>>

\* ordenar_autos ran on a list: in local mode, or in API mode on what the
\* server delivered.
OrdenarCorrio ==
    /\ qFase = "hecho"
    /\ qSalida.op \in {"ordenar", "ordenar_api"}
    /\ qSalida.mensaje # "sin_autos"

\* The normalized field name contains none of the tokens ordenar_autos
\* looks for.
SinToken(campo) ==
    \A nombre \in DOMAIN tk : ~Contiene(normalizar(campo), tk[nombre])

\* C16: given a field name that contains none of the recognized tokens,
\* ordenar_autos reports an invalid field and shows no list; it orders by
\* no default field.
C16_CampoInvalidoRechazado ==
    (OrdenarCorrio /\ SinToken(qSalida.entrada[1])) =>
        /\ qSalida.mensaje = "campo_invalido"
        /\ qSalida.lista = <<>>
        /\ qSalida.extra.campo_orden = ""

\* The field "precio" was given for a list of two autos and rejected.
C16_Testigo ==
    /\ qFase = "hecho"
    /\ qSalida.op = "ordenar"
    /\ qSalida.entrada[1] = <<"p", "r", "e", "c", "i", "o">>
    /\ qAutos = <<qB, qAb>>
    /\ qSalida.mensaje = "campo_invalido"
    /\ qSalida.lista = <<>>

\* C17: every field name that contains the token "transmision" after
\* normalization orders by Transmision, every one that contains "año"
\* orders by Año and every one that contains "modelo" orders by Modelo,
\* whatever else the name contains.
C17_TokenDecideCampo ==
    (qFase = "hecho" /\ qSalida.op = "ordenar") =>
        LET campo_norm == normalizar(qSalida.entrada[1])
        IN  /\ Contiene(campo_norm, tk.transmision)
                  => qSalida.extra.campo_orden = "Transmision"
            /\ Contiene(qSalida.entrada[1], tk.anio) => qSalida.extra.campo_orden = "Anio"
            /\ Contiene(campo_norm, tk.modelo) => qSalida.extra.campo_orden = "Modelo"

(***************************************************************************)
(* statistics.py                                                           *)
(***************************************************************************)

\* A count that starts again at 1 each time the key comes.
ContarSinAcumular(conteo, clave) ==
    IF \E i \in 1..Len(conteo) : conteo[i].clave = clave
    THEN conteo
    ELSE Append(conteo, [clave |-> clave, valor |-> 1])

\* A dict as the sequence of its items [clave, valor], in insertion order.
\* conteo[clave] = conteo.get(clave, 0) + 1
Contar(conteo, clave) ==
    IF \E i \in 1..Len(conteo) : conteo[i].clave = clave
    THEN [i \in 1..Len(conteo) |->
            IF conteo[i].clave = clave
            THEN [clave |-> clave, valor |-> conteo[i].valor + 1]
            ELSE conteo[i]]
    ELSE Append(conteo, [clave |-> clave, valor |-> 1])

RECURSIVE contar_autos_recursivo(_, _, _, _, _)
\* statistics.contar_autos_por_marca_recursivo, _por_combustible_recursivo
\* and _por_transmision_recursivo: the same function but for the key and
\* the default; conteo=None is the empty dict.
contar_autos_recursivo(lista, campo, defecto, indice, conteo) ==
    IF indice >= Len(lista) THEN conteo
    ELSE contar_autos_recursivo(lista, campo, defecto, indice + 1,
                                Contar(conteo, get(lista[indice + 1], campo, defecto)))

\* sorted(conteo.items()): the items by key (no two items share the key).
ItemsOrdenados(conteo) ==
    LET pares == [i \in 1..Len(conteo) |-> [clave |-> conteo[i].clave, auto |-> conteo[i]]]
        ordenados == sorted(pares, FALSE, FALSE)
    IN  [i \in 1..Len(conteo) |-> ordenados[i].auto]

RECURSIVE sumar_anios_recursivo(_, _)
\* statistics.sumar_años_recursivo
sumar_anios_recursivo(lista, indice) ==
    IF indice >= Len(lista) THEN <<"0">>
    ELSE EnteroSuma(get(lista[indice + 1], "Anio", <<"0">>),
                    sumar_anios_recursivo(lista, indice + 1))

RECURSIVE MinHasta(_, _)
\* min(autos, key=lambda x: x["Año"]) over the first k autos: the first of
\* the autos with the least key.
MinHasta(lista, k) ==
    IF k = 1 THEN lista[1]
    ELSE IF EnteroMenor(lista[k].Anio, MinHasta(lista, k - 1).Anio) THEN lista[k]
    ELSE MinHasta(lista, k - 1)

RECURSIVE MaxUltimoHasta(_, _)
\* A max that keeps the last of the autos with the greatest key.
MaxUltimoHasta(lista, k) ==
    IF k = 1 THEN lista[1]
    ELSE IF EnteroMenorIgual(MaxUltimoHasta(lista, k - 1).Anio, lista[k].Anio) THEN lista[k]
    ELSE MaxUltimoHasta(lista, k - 1)

RECURSIVE MaxHasta(_, _)
\* max(autos, key=lambda x: x["Año"]) over the first k autos: the first of
\* the autos with the greatest key.
MaxHasta(lista, k) ==
    IF k = 1 THEN lista[1]
    ELSE IF EnteroMenor(MaxHasta(lista, k - 1).Anio, lista[k].Anio) THEN lista[k]
    ELSE MaxHasta(lista, k - 1)

SinCalculo ==
    [calculado |-> FALSE, antiguo |-> <<>>, nuevo |-> <<>>, suma |-> <<>>,
     promedio |-> <<>>, por_marca |-> <<>>, por_combustible |-> <<>>,
     por_transmision |-> <<>>]

\* The body of mostrar_estadisticas after its guard: min() and max() of an
\* empty list raise ValueError, a list without "Año" in an auto KeyError.
Calcular(lista) ==
    IF lista = <<>> THEN Salida("estadisticas", <<>>, "ValueError", "", <<>>, SinCalculo)
    ELSE IF \E i \in 1..Len(lista) : {"Marca", "Modelo", "Anio"} \ DOMAIN lista[i] # {}
    THEN Salida("estadisticas", <<>>, "KeyError", "", <<>>, SinCalculo)
    ELSE Salida("estadisticas", <<>>, "", "estadisticas", <<>>,
            [calculado |-> TRUE,
             antiguo |-> MinHasta(lista, Len(lista)),
             nuevo |-> MaxHasta(lista, Len(lista)),
             suma |-> sumar_anios_recursivo(lista, 0),
             promedio |-> IntDeDivision(sumar_anios_recursivo(lista, 0), Len(lista)),
             por_marca |-> ItemsOrdenados(
                 contar_autos_recursivo(lista, "Marca",
                     <<"D", "e", "s", "c", "o", "n", "o", "c", "i", "d", "a">>, 0, <<>>)),
             por_combustible |-> ItemsOrdenados(
                 contar_autos_recursivo(lista, "TipoCombustible",
                     <<"D", "e", "s", "c", "o", "n", "o", "c", "i", "d", "o">>, 0, <<>>)),
             por_transmision |-> ItemsOrdenados(
                 contar_autos_recursivo(lista, "Transmision",
                     <<"D", "e", "s", "c", "o", "n", "o", "c", "i", "d", "a">>, 0, <<>>))])

\* mostrar_estadisticas without its guard.
MostrarEstadisticasSinGuarda(lista) == Calcular(lista)

\* statistics.mostrar_estadisticas
mostrar_estadisticas(lista) ==
    IF lista = <<>> THEN Salida("estadisticas", <<>>, "", "sin_datos", <<>>, SinCalculo)
    ELSE Calcular(lista)

\* api_mode.estadisticas_api
estadisticas_api(coleccion, respuesta) ==
    LET lista == obtener_autos_api(coleccion, respuesta)
    IN  IF lista = <<>>
        THEN Salida("estadisticas_api", <<respuesta>>, "", "sin_autos", <<>>, SinCalculo)
        ELSE [mostrar_estadisticas(lista) EXCEPT !.op = "estadisticas_api",
                                                 !.entrada = <<respuesta>>]

\* main, case 6 in local mode.
MostrarEstadisticas ==
    /\ qFase = "inicio"
    /\ ListaLocal(qAutos)
    /\ qSalida' = mostrar_estadisticas(qAutos)
    /\ qFase' = "hecho"
    /\ UNCHANGED <<qAutos, varsNorm, varsCsv, varsSesion>>

\* main, case 6 in API mode: qAutos is the collection of the server.
EstadisticasApi ==
    /\ qFase = "inicio"
    /\ \E respuesta \in RespuestasConsulta :
        qSalida' = estadisticas_api(qAutos, respuesta)
    /\ qFase' = "hecho"
    /\ UNCHANGED <<qAutos, varsNorm, varsCsv, varsSesion>>

\* The statistics were asked for: in local mode of the list qAutos, in API
\* mode of what obtener_autos_api made of the server's answer.
Estadisticas == qFase = "hecho" /\ qSalida.op \in {"estadisticas", "estadisticas_api"}

ListaDeEstadisticas ==
    IF qSalida.op = "estadisticas" THEN qAutos
    ELSE obtener_autos_api(qAutos, qSalida.entrada[1])

\* C18: on an empty list mostrar_estadisticas reports that there is no data
\* and returns without computing; neither a division by zero nor a min or
\* max of an empty sequence is evaluated, in local mode and in API mode,
\* where estadisticas_api returns before mostrar_estadisticas.
C18_SinDatosSinCalculo ==
    Estadisticas =>
        /\ qSalida.exc \notin {"ZeroDivisionError", "ValueError"}
        /\ ListaDeEstadisticas = <<>> =>
              /\ qSalida.exc = ""
              /\ ~qSalida.extra.calculado
              /\ qSalida.mensaje
                    = IF qSalida.op = "estadisticas" THEN "sin_datos" ELSE "sin_autos"

\* In local mode the statistics of the empty list were asked for and the
\* answer was that there is no data.
C18_Testigo ==
    /\ qFase = "hecho"
    /\ qSalida.op = "estadisticas"
    /\ qAutos = <<>>
    /\ qSalida.mensaje = "sin_datos"
    /\ ~qSalida.extra.calculado

\* The statistics of a list that is not empty were computed.
Calculado == Estadisticas /\ qSalida.extra.calculado

\* The position in lista of the first auto whose year no other year is
\* below (mayor = FALSE) or above (mayor = TRUE).
PrimeroExtremo(lista, mayor) ==
    LET Extremo(i) ==
            \A j \in 1..Len(lista) :
                IF mayor THEN EnteroMenorIgual(lista[j].Anio, lista[i].Anio)
                ELSE EnteroMenorIgual(lista[i].Anio, lista[j].Anio)
    IN  CHOOSE i \in 1..Len(lista) : Extremo(i) /\ \A h \in 1..(i - 1) : ~Extremo(h)

\* C19: for a list that is not empty the oldest auto reported is the first
\* auto of the list whose year is the least year, and the newest one is the
\* first auto of the list whose year is the greatest year.
C19_PrimerMinimoYMaximo ==
    Calculado =>
        /\ qSalida.extra.antiguo
              = ListaDeEstadisticas[PrimeroExtremo(ListaDeEstadisticas, FALSE)]
        /\ qSalida.extra.nuevo
              = ListaDeEstadisticas[PrimeroExtremo(ListaDeEstadisticas, TRUE)]

\* For autos of the years 2020, 1999, 2020 the oldest is the second auto
\* and the newest is the first, not the third of the same year.
C19_Testigo ==
    /\ Calculado
    /\ qSalida.op = "estadisticas"
    /\ qAutos = <<qAb, qK, qB>>
    /\ qSalida.extra.antiguo = qK
    /\ qSalida.extra.nuevo = qAb

RECURSIVE SumaDeAnios(_)
\* The sum of the years of the autos.
SumaDeAnios(lista) ==
    IF lista = <<>> THEN <<"0">>
    ELSE EnteroSuma(SumaDeAnios(SinUltimo(lista)), lista[Len(lista)].Anio)

\* C20: for a list that is not empty the average year reported is the sum
\* of the years divided by the number of autos, with the fraction dropped
\* (2000 and 2010 give 2005), and the sum that sumar_años_recursivo returns
\* is the sum of the years of all the autos.
C20_PromedioTruncado ==
    (Calculado /\ ListaLocal(ListaDeEstadisticas)) =>
        /\ qSalida.extra.suma = SumaDeAnios(ListaDeEstadisticas)
        /\ qSalida.extra.promedio
              = CocienteTruncado(SumaDeAnios(ListaDeEstadisticas), Len(ListaDeEstadisticas))

RECURSIVE SumaDeValores(_)
\* The sum of the counts of a grouping.
SumaDeValores(items) ==
    IF items = <<>> THEN 0
    ELSE SumaDeValores(SinUltimo(items)) + items[Len(items)].valor

\* The grouping reported for a field of the list: its keys are the values
\* the autos hold in the field (the default for an auto without the key),
\* each with the number of autos that hold exactly it; the keys ascend by
\* code points and the counts add up to the number of autos.
AgrupaBien(items, lista, campo, defecto) ==
    /\ {items[i].clave : i \in 1..Len(items)}
          = {get(lista[j], campo, defecto) : j \in 1..Len(lista)}
    /\ \A i \in 1..Len(items) :
          items[i].valor
             = Cardinality({j \in 1..Len(lista) :
                               get(lista[j], campo, defecto) = items[i].clave})
    /\ \A i \in 1..(Len(items) - 1) : StrMenor(items[i].clave, items[i + 1].clave)
    /\ SumaDeValores(items) = Len(lista)

\* C21: each of the three groupings (by brand, by fuel type, by
\* transmission) gives every distinct value of its field the number of autos
\* that hold exactly that value, so that the counts of a grouping sum to the
\* number of autos, and reports the groups in ascending order of the key.
C21_ConteosPorGrupo ==
    Calculado =>
        /\ AgrupaBien(qSalida.extra.por_marca, ListaDeEstadisticas, "Marca",
                      <<"D", "e", "s", "c", "o", "n", "o", "c", "i", "d", "a">>)
        /\ AgrupaBien(qSalida.extra.por_combustible, ListaDeEstadisticas, "TipoCombustible",
                      <<"D", "e", "s", "c", "o", "n", "o", "c", "i", "d", "o">>)
        /\ AgrupaBien(qSalida.extra.por_transmision, ListaDeEstadisticas, "Transmision",
                      <<"D", "e", "s", "c", "o", "n", "o", "c", "i", "d", "a">>)

\* For the brands "Áb", "k", "Áb" the groups are "k" with one auto and then
\* "Áb" with two.
C21_Testigo ==
    /\ Calculado
    /\ qSalida.op = "estadisticas"
    /\ qAutos = <<qAb, qK, qAb>>
    /\ qSalida.extra.por_marca
          = <<[clave |-> <<"k">>, valor |-> 1],
              [clave |-> <<"A_acute", "b">>, valor |-> 2]>>

\* What api_client.listar_autos can do: deliver the array, deliver a JSON
\* value that is not an array, or raise (transport, HTTP status, body).
RespuestasDeListar == RespuestasConsulta \cup {"http", "no_json"}

\* obtener_autos_api() called on the collection qAutos of the server.
LlamarObtenerAutosApi ==
    /\ qFase = "inicio"
    /\ \E respuesta \in RespuestasDeListar :
        \E r \in {ObtenerAutosApi(qAutos, respuesta)} :
            qSalida' = Salida("obtener_autos_api", respuesta, r.exc, r.mensaje, <<>>,
                              [retorno |-> r.retorno])
    /\ qFase' = "hecho"
    /\ UNCHANGED <<qAutos, varsNorm, varsCsv, varsSesion>>

\* C24: obtener_autos_api never raises and always returns a list: the array
\* of the server when the call delivered an array that is not empty, and the
\* empty list together with a diagnostic message for a transport error, an
\* HTTP error, a body that is not JSON, a payload that is not an array and an
\* empty array.
C24_SiempreUnaLista ==
    (qFase = "hecho" /\ qSalida.op = "obtener_autos_api") =>
        /\ qSalida.exc = ""
        /\ qSalida.extra.retorno.tipo = "array"
        /\ IF qSalida.entrada = "lista" /\ qAutos # <<>>
           THEN qSalida.extra.retorno.valor = qAutos /\ qSalida.mensaje = ""
           ELSE qSalida.extra.retorno.valor = <<>> /\ qSalida.mensaje # ""

\* The server answered with a JSON object while it holds two autos:
\* obtener_autos_api returned [] and said that the answer is not a list.
C24_Testigo ==
    /\ qFase = "hecho"
    /\ qSalida.op = "obtener_autos_api"
    /\ qSalida.entrada = "no_lista"
    /\ Len(qAutos) = 2
    /\ qSalida.extra.retorno = [tipo |-> "array", valor |-> <<>>]
    /\ qSalida.mensaje = "no_es_lista"
    /\ qSalida.exc = ""

\* The status codes of the answers to DELETE /autos/{id}.
EstadosDeBorrar == {200, 201, 204, 304, 404, 500}

\* api_client.eliminar_auto(id_auto) called while the server answers with
\* the status.
LlamarEliminarAuto ==
    /\ qFase = "inicio"
    /\ \E status_code \in EstadosDeBorrar :
        \E r \in {eliminar_auto(status_code)} :
            qSalida' = Salida("eliminar_auto", status_code, r.exc, "", <<>>,
                              [retorno |-> r.retorno])
    /\ qFase' = "hecho"
    /\ UNCHANGED <<qAutos, varsNorm, varsCsv, varsSesion>>

\* C25: eliminar_auto returns True exactly when the status of the answer is
\* in the 2xx class, and raises an error for every status outside it, 3xx,
\* 4xx and 5xx alike.
C25_SoloExitoEn2xx ==
    (qFase = "hecho" /\ qSalida.op = "eliminar_auto") =>
        IF 200 <= qSalida.entrada /\ qSalida.entrada < 300
        THEN qSalida.exc = "" /\ qSalida.extra.retorno
        ELSE qSalida.exc # ""

NextConsulta ==
    \/ Buscar
    \/ FiltrarCombustible
    \/ FiltrarTransmision
    \/ FiltrarTransmisionApi
    \/ FiltrarAnio
    \/ FiltrarAnioApi
    \/ Ordenar
    \/ OrdenarApi
    \/ MostrarEstadisticas
    \/ EstadisticasApi
    \/ LlamarObtenerAutosApi
    \/ LlamarEliminarAuto

SpecConsulta == InitConsulta /\ [][NextConsulta]_vars

(***************************************************************************)
(* SpecLista: data_load.borrar_auto and data_load.editar_auto applied to   *)
(* a list of autos in memory.  qAutos is the list, which the function      *)
(* changes in place; qSalida holds what was typed, the list as it was when *)
(* the function was called and what the function returned.                 *)
(***************************************************************************)

\* The most autos in the list.
MaxLista == 3

\* Two autos with the same Marca, Modelo and Año and another fuel, and an
\* auto whose Modelo matches the same searches.
lNafta ==
    [Marca |-> <<"A">>, Modelo |-> <<"K">>, Anio |-> 2020,
     TipoCombustible |-> <<"N">>, Transmision |-> <<"M">>]
lDiesel == [lNafta EXCEPT !.TipoCombustible = <<"D">>]
lOtro ==
    [Marca |-> <<"B">>, Modelo |-> <<"a">>, Anio |-> 1999,
     TipoCombustible |-> <<"N">>, Transmision |-> <<"M">>]

AutosLista == {lNafta, lDiesel, lOtro}

InitLista ==
    /\ qFase = "inicio"
    /\ qAutos \in ListasHasta(AutosLista, MaxLista)
    /\ qSalida = SalidaVacia
    /\ NormReposo
    /\ CsvReposo
    /\ SesionReposo

\* borrar_auto(autos) on what the user types, "0" as the number as well.
Borrar ==
    /\ qFase = "inicio"
    /\ \E e \in EntradasBorrar \cup {EntradaBorrar(<<"A">>, <<"0">>, <<"s">>)} :
        \E r \in {borrar_auto(qAutos, e)} :
            /\ qAutos' = r.autos
            /\ qSalida' = Salida("borrar", e, "", "", qAutos, [borrado |-> r.borrado])
    /\ qFase' = "hecho"
    /\ UNCHANGED <<varsNorm, varsCsv, varsSesion>>

\* The positions of the autos of lista whose normalized Marca or Modelo
\* contains the normalized search text.
PosicionesQueCoinciden(lista, busqueda) ==
    {i \in 1..Len(lista) :
        \/ Contiene(normalizar(lista[i].Marca), normalizar(strip(busqueda)))
        \/ Contiene(normalizar(lista[i].Modelo), normalizar(strip(busqueda)))}

\* The position in lista of the auto the user selected by its number among
\* the matches shown, 0 when the search is empty or matches nothing or the
\* number typed is not the number of a match.
Seleccionado(lista, busqueda, indice) ==
    LET M == PosicionesQueCoinciden(lista, busqueda)
        n == IntDeStr(indice)
        elegidos == {i \in M : n.exc = ""
                               /\ Cardinality({j \in M : j <= i}) = EnteroDeNumeral(n.val)}
    IN  IF strip(busqueda) = <<>> \/ elegidos = {} THEN 0
        ELSE CHOOSE i \in elegidos : TRUE

\* despues is antes without its element number k.
QuitadoEl(antes, despues, k) ==
    /\ Len(despues) = Len(antes) - 1
    /\ \A i \in 1..(k - 1) : despues[i] = antes[i]
    /\ \A i \in k..Len(despues) : despues[i] = antes[i + 1]

\* borrar_auto was called: qSalida.lista is the list it was given.
BorrarCorrio == qFase = "hecho" /\ qSalida.op = "borrar"

\* The user selected a match and confirmed with "s".
BorradoConfirmado ==
    /\ Seleccionado(qSalida.lista, qSalida.entrada.busqueda,
                    strip(qSalida.entrada.indice)) # 0
    /\ lower(strip(qSalida.entrada.confirma)) = <<"s">>

EntradasEditarLista ==
    EntradasEditar
    \cup {EntradaEditar(<<"A">>, <<"0">>, tA_B, t2020, <<"E">>),
          EntradaEditar(<<" ", "a">>, <<" ", "3">>, <<>>, <<"1", "9", "0", "0">>, <<>>),
          [EntradaEditar(<<"A">>, <<"2">>, tA_B, t1800, <<"E">>)
              EXCEPT !.nuevo_modelo = <<" ", "z">>, !.nueva_transmision = <<"a", " ">>],
          [EntradaEditar(<<"k">>, <<"1">>, <<>>, <<"2", "1", "0", "1">>, <<>>)
              EXCEPT !.nuevo_modelo = <<"z">>]}

\* editar_auto(autos) on what the user types.
Editar ==
    /\ qFase = "inicio"
    /\ \E e \in EntradasEditarLista :
        /\ qAutos' = editar_auto(qAutos, e)
        /\ qSalida' = Salida("editar", e, "", "", qAutos, <<>>)
    /\ qFase' = "hecho"
    /\ UNCHANGED <<varsNorm, varsCsv, varsSesion>>

\* editar_auto was called: qSalida.lista is the list it was given.
EditarCorrio == qFase = "hecho" /\ qSalida.op = "editar"

\* The text typed as the new year is a number from 1900 to 2100.
AnioAceptable(respuesta) ==
    /\ IntDeStr(respuesta).exc = ""
    /\ 1900 <= EnteroDeNumeral(IntDeStr(respuesta).val)
    /\ EnteroDeNumeral(IntDeStr(respuesta).val) <= 2100

\* The four text fields of an auto and the answer typed for each.
RespuestasDeTexto(e) ==
    {<<"Marca", e.nueva_marca>>, <<"Modelo", e.nuevo_modelo>>,
     <<"TipoCombustible", e.nuevo_combustible>>,
     <<"Transmision", e.nueva_transmision>>}

\* C27: editar_auto changes the auto the user selected and no other: each
\* text field becomes the stripped answer when that is not empty and stays
\* otherwise, the year becomes the number typed when it is from 1900 to 2100
\* and stays otherwise (blank, not a number, out of range) while the other
\* answers are applied; every other auto, the length of the list and its
\* order stay as they were.
C27_SoloElSeleccionado ==
    EditarCorrio =>
        LET antes == qSalida.lista
            e == qSalida.entrada
            k == Seleccionado(antes, e.busqueda, strip(e.indice))
        IN  /\ Len(qAutos) = Len(antes)
            /\ \A i \in 1..Len(antes) : i # k => qAutos[i] = antes[i]
            /\ k # 0 =>
                  /\ \A par \in RespuestasDeTexto(e) :
                        qAutos[k][par[1]] = IF strip(par[2]) = <<>> THEN antes[k][par[1]]
                                            ELSE strip(par[2])
                  /\ qAutos[k].Anio =
                        IF strip(e.nuevo_anio) # <<>> /\ AnioAceptable(e.nuevo_anio)
                        THEN EnteroDeNumeral(IntDeStr(e.nuevo_anio).val)
                        ELSE antes[k].Anio

\* Of two autos that match "A" the user selected the second and answered
\* every prompt, the year with 1800: the second auto has the four new texts
\* and its old year, the first auto is as it was.
C27_Testigo ==
    /\ EditarCorrio
    /\ qSalida.lista = <<lNafta, lDiesel>>
    /\ qSalida.entrada.indice = <<"2">>
    /\ qSalida.entrada.nuevo_anio = t1800
    /\ qAutos = <<lNafta,
                  [Marca |-> tA_B, Modelo |-> <<"z">>, Anio |-> 2020,
                   TipoCombustible |-> <<"E">>, Transmision |-> <<"a">>]>>

NextLista ==
    \/ Borrar
    \/ Editar

SpecLista == InitLista /\ [][NextLista]_vars

(***************************************************************************)
(* Spec: the queries of the main menu and the session as a whole           *)
(***************************************************************************)

\* main.autos as the queries see it: the year of each auto as a numeral.
ConsultaDe(lista) ==
    [i \in 1..Len(lista) |-> [lista[i] EXCEPT !.Anio = NumeralDeEntero(@)]]

\* A main loop without its "except ValueError".
MainSinExcept(exc) == FALSE

\* "except ValueError:" around one pass of the loop of main.
main_except(exc) == exc = "ValueError"

\* What cases 1 to 6 of main do in local mode on what the user types: a
\* search, a filter by fuel and by transmission, a year range (inverted, not
\* a number, a superscript digit), a sort by an unknown field and the
\* statistics.
ConsultasLocales(lista) ==
    {buscar_auto(lista, <<"a">>),
     filtrar_combustible(lista, <<"x">>),
     filtrar_anio(lista, <<t2020, t1800>>),
     filtrar_anio(lista, <<<<"x">>, t2020>>),
     filtrar_anio(lista, <<t1800, <<"sup2">>>>),
     filtrar_transmision(lista, <<"M">>),
     ordenar_autos(lista, <<"x">>, FALSE),
     mostrar_estadisticas(lista)}

\* cases 1 to 6, local: the query prints and returns, or raises; main
\* catches ValueError and shows the menu again, any other exception ends
\* the process.
MenuConsulta ==
    /\ pc = "menu"
    /\ ~MODO_API
    /\ \E s \in ConsultasLocales(ConsultaDe(autos)) :
        /\ pc' = IF s.exc = "" \/ main_except(s.exc) THEN "menu" ELSE "caido"
        /\ excepcion' = IF s.exc = "" \/ main_except(s.exc) THEN "" ELSE s.exc
        /\ traza' = Traza("consulta", FALSE, <<>>, s.exc, FALSE, FALSE)
    /\ UNCHANGED <<MODO_API, autos, disco, remoto, soloValidas, varsNorm, varsCsv,
                   varsConsulta>>

\* C26: in local mode a pass of the main loop whose file writes succeed
\* raises nothing that leaves the loop: the menu is shown again, the mode
\* selector is entered, or the program ends through the exit option.
C26_SinExcepcionEnLocal ==
    [][(pc = "menu" /\ ~MODO_API /\ ~(traza'.guardo /\ traza'.exc = "OSError"))
        => (pc' \in {"menu", "modo", "fin"} /\ excepcion' = "")]_vars

\* The superscript two typed as a year of filtrar_año raised ValueError in
\* int(), main caught it, and the menu is shown again.
C26_Testigo ==
    /\ pc = "menu"
    /\ ~MODO_API
    /\ excepcion = ""
    /\ traza.op = "consulta"
    /\ traza.exc = "ValueError"
    /\ autos # <<>>

(***************************************************************************)
(* Spec: editing and deleting on the server.  Every item of the server     *)
(* carries the id the server gave it, which escribir_csv does not write;   *)
(* the model identifies an item by its position in remoto.  The server     *)
(* answers GET /autos?q=K with its whole collection, K being the Modelo of *)
(* every item, applies the changes of a PATCH it accepts, and removes the  *)
(* item of a DELETE it answers with 200 or 204.                            *)
(***************************************************************************)

\* a.get(clave, "") of an item of the server
TextoDe(valor) == IF valor.t = "str" THEN valor.v ELSE <<>>

\* [a for a in autos if busqueda_norm in normalizar(a.get("Marca", "")) or
\*  busqueda_norm in normalizar(a.get("Modelo", ""))], as positions
ResultadosApi(lista, busqueda_norm) ==
    SelectSeq([i \in 1..Len(lista) |-> i],
              LAMBDA i : \/ Contiene(normalizar(TextoDe(lista[i].Marca)), busqueda_norm)
                         \/ Contiene(normalizar(TextoDe(lista[i].Modelo)), busqueda_norm))

\* The dict cambios of editar_auto_api: the keys answered with a text that
\* is not blank, "Año" only for a number from 1900 to 2100.
Cambios(e) ==
    LET textos == [Modelo |-> e.nuevo_modelo,
                   TipoCombustible |-> e.nuevo_combustible,
                   Transmision |-> e.nueva_transmision, Marca |-> e.nueva_marca]
        n == IntDeStr(strip(e.nuevo_anio))
        anio == IF /\ strip(e.nuevo_anio) # <<>>
                   /\ n.exc = ""
                   /\ 1900 <= EnteroDeNumeral(n.val)
                   /\ EnteroDeNumeral(n.val) <= 2100
                THEN [c \in {"Anio"} |-> Int_(SinCerosIzq(n.val))]
                ELSE [c \in {} |-> Falta]
    IN  [c \in {x \in DOMAIN textos : strip(textos[x]) # <<>>} \cup DOMAIN anio |->
            IF c = "Anio" THEN anio[c] ELSE Str(strip(textos[c]))]

\* The item after the server applied the changes of a PATCH.
ConCambios(item, cambios) ==
    [c \in DOMAIN item |-> IF c \in DOMAIN cambios THEN cambios[c] ELSE item[c]]

\* api_mode.editar_auto_api up to its call of _sincronizar_api_con_local:
\* [llamo, exito, remoto], llamo telling whether actualizar_auto_parcial was
\* called, exito whether it returned, remoto the collection afterwards.
\* respuesta is what listar_autos answers to the search, actualizado whether
\* the server accepts the PATCH.
editar_auto_api(coleccion, e, respuesta, actualizado) ==
    LET busqueda == strip(e.busqueda)
        autos_api == obtener_autos_api(coleccion, respuesta)
        resultados == ResultadosApi(autos_api, normalizar(busqueda))
        indice == IntDeStr(e.indice)
        i == EnteroDeNumeral(indice.val) - 1
        nada == [llamo |-> FALSE, exito |-> FALSE, remoto |-> coleccion]
    IN  IF busqueda = <<>> \/ resultados = <<>> THEN nada
        ELSE IF indice.exc # "" THEN nada
        ELSE IF i < 0 \/ i >= Len(resultados) THEN nada
        ELSE IF DOMAIN Cambios(e) = {} THEN nada
        ELSE IF ~actualizado THEN [llamo |-> TRUE, exito |-> FALSE, remoto |-> coleccion]
        ELSE [llamo |-> TRUE, exito |-> TRUE,
              remoto |-> [coleccion EXCEPT ![resultados[i + 1]] =
                             ConCambios(@, Cambios(e))]]

\* api_mode.borrar_auto_api up to its call of _sincronizar_api_con_local:
\* [llamo, exito, remoto].  estado is the status of the answer to DELETE.
borrar_auto_api(coleccion, e, respuesta, estado) ==
    LET busqueda == strip(e.busqueda)
        autos_api == obtener_autos_api(coleccion, respuesta)
        idx == IntDeStr(strip(e.indice))
        i == EnteroDeNumeral(idx.val) - 1
        nada == [llamo |-> FALSE, exito |-> FALSE, remoto |-> coleccion]
    IN  IF busqueda = <<>> \/ autos_api = <<>> THEN nada
        ELSE IF idx.exc # "" THEN nada
        ELSE IF i < 0 \/ i >= Len(autos_api) THEN nada
        ELSE IF lower(strip(e.confirma)) # <<"s">> THEN nada
        ELSE IF eliminar_auto(estado).exc # ""
        THEN [llamo |-> TRUE, exito |-> FALSE, remoto |-> coleccion]
        ELSE [llamo |-> TRUE, exito |-> TRUE,
              remoto |-> IF estado \in {200, 204} THEN SinElemento(coleccion, i + 1)
                         ELSE coleccion]

\* A handler of API mode that synchronizes whether or not the call of the
\* client returned.
TrasLlamadaApiSiempre(op, r, respuesta, fallo) ==
    \E s \in {sincronizar_api_con_local(disco, r.remoto, respuesta, fallo)} :
        /\ remoto' = r.remoto
        /\ disco' = s.disco
        /\ traza' = Traza(op, s.guardo, s.lista, s.exc, s.sincronizo, r.exito)

\* What a handler of API mode leaves after its call of the client: nothing
\* more when the client was not called or raised (the exception is caught
\* and reported), otherwise the synchronization with what listar_autos
\* answers next.
TrasLlamadaApi(op, r, respuesta, fallo) ==
    IF ~r.exito
    THEN /\ traza' = Traza(op, FALSE, <<>>, IF r.llamo THEN "HTTPError" ELSE "",
                           FALSE, FALSE)
         /\ UNCHANGED <<remoto, disco>>
    ELSE \E s \in {sincronizar_api_con_local(disco, r.remoto, respuesta, fallo)} :
            /\ remoto' = r.remoto
            /\ disco' = s.disco
            /\ traza' = Traza(op, s.guardo, s.lista, s.exc, s.sincronizo, TRUE)

\* What the user types in editar_auto_api: a new Marca for the first match,
\* and a year out of range alone.
EntradasEditarApi ==
    {EntradaEditar(<<"K">>, <<"1">>, <<"C">>, <<>>, <<>>),
     EntradaEditar(<<"K">>, <<"1">>, <<>>, t1800, <<>>)}

\* case 8, API: editar_auto_api()
MenuEditarApi ==
    /\ pc = "menu"
    /\ MODO_API
    /\ \E e \in EntradasEditarApi, actualizado \in BOOLEAN :
        \E r \in {editar_auto_api(remoto, e, "lista", actualizado)} :
            TrasLlamadaApi("editar_api", r, "lista", "")
    /\ UNCHANGED <<pc, excepcion, MODO_API, autos, soloValidas, varsNorm, varsCsv,
                   varsConsulta>>

\* What the user types in borrar_auto_api: the first item, confirmed and
\* not confirmed.
EntradasBorrarApi ==
    {EntradaBorrar(<<"K">>, <<" ", "1">>, <<" ", "s">>),
     EntradaBorrar(<<"K">>, <<"1">>, <<"n">>)}

\* case 9, API: borrar_auto_api()
MenuBorrarApi ==
    /\ pc = "menu"
    /\ MODO_API
    /\ \E e \in EntradasBorrarApi, estado \in {204, 500} :
        \E r \in {borrar_auto_api(remoto, e, "lista", estado)} :
            TrasLlamadaApi("borrar_api", r, "lista", "")
    /\ UNCHANGED <<pc, excepcion, MODO_API, autos, soloValidas, varsNorm, varsCsv,
                   varsConsulta>>

\* An item of the server as the queries see it: the values of its keys.
ConsultaDeItem(item) ==
    [c \in {x \in DOMAIN item : item[x].t # "falta"} |-> item[c].v]

\* What cases 1 to 6 of main do in API mode: each asks the server for its
\* collection (respuesta is what listar_autos answers) and works on the list
\* obtained.
ConsultasApi(coleccion, respuesta) ==
    {filtrar_transmision_api(coleccion, respuesta, <<"M">>),
     filtrar_anio_api(coleccion, respuesta, <<t1800, t2020>>),
     ordenar_autos_api(coleccion, respuesta, <<"x">>, FALSE),
     estadisticas_api(coleccion, respuesta)}

\* cases 1 to 6, API: as in local mode, main catches the ValueError that
\* leaves a handler and any other exception ends the process.
MenuConsultaApi ==
    /\ pc = "menu"
    /\ MODO_API
    /\ \E respuesta \in {"lista", "error"} :
        \E s \in ConsultasApi([i \in 1..Len(remoto) |-> ConsultaDeItem(remoto[i])],
                              respuesta) :
            /\ pc' = IF s.exc = "" \/ main_except(s.exc) THEN "menu" ELSE "caido"
            /\ excepcion' = IF s.exc = "" \/ main_except(s.exc) THEN "" ELSE s.exc
            /\ traza' = Traza("consulta_api", FALSE, <<>>, s.exc, FALSE, FALSE)
    /\ UNCHANGED <<MODO_API, autos, disco, remoto, soloValidas, varsNorm, varsCsv,
                   varsConsulta>>

Next ==
    \/ Arranque
    \/ ElegirModo
    \/ MenuConsulta
    \/ MenuAgregar
    \/ MenuEditar
    \/ MenuBorrar
    \/ MenuAgregarApi
    \/ MenuCambiarModo
    \/ MenuSalir
    \/ MenuOpcionInvalida

Spec == Init /\ [][Next]_vars

(***************************************************************************)
(* SpecApi: the session in API mode, from the menu shown after the central *)
(* file was read and the server answered the health check.                 *)
(***************************************************************************)

\* The rows of the central file and the items of the server when the menu
\* is first shown in API mode.
IniciosApi ==
    [filas : {<<>>, <<FilaInicio(tAB, t2020)>>},
     remoto : {<<ItemOk>>, <<ItemOk, ItemApi(<<"D">>, Int_(t2020), Str(<<"M">>))>>}]

InitApi ==
    /\ pc = "menu"
    /\ excepcion = ""
    /\ MODO_API = TRUE
    /\ \E ini \in IniciosApi :
        /\ disco = [r \in {db_path, db_path_api} |->
                       [central |-> ArchivoDeFilas(ini.filas),
                        subgrupos |-> SubgruposVacios]]
        /\ autos = [i \in 1..Len(ini.filas) |->
                       AutoDeLeido(leer_csv(ArchivoDeFilas(ini.filas)).autos[i])]
        /\ remoto = ini.remoto
    /\ soloValidas = TRUE
    /\ traza = TrazaVacia
    /\ NormReposo
    /\ CsvReposo
    /\ ConsultaReposo

\* The handlers of API mode that change the server.
OperacionesApi == {"agregar_api", "editar_api", "borrar_api"}

\* C28: after a create, an update or a delete on the server that succeeded,
\* and a synchronization whose request and writes did not fail, the central
\* file holds exactly the items of the server, and every view the file of
\* each group of those items; so too when the server holds no item.
C28_LocalIgualRemoto ==
    (/\ traza.op \in OperacionesApi
     /\ traza.resultado
     /\ traza.exc = ""
     /\ (traza.guardo \/ remoto = <<>>)) =>
        /\ disco[db_path_api].central = EscribirArchivo(remoto).contenido
        /\ VistasDerivadasDe(disco[db_path_api].subgrupos, remoto)

\* C29: in API mode a create, a patch or a delete that did not succeed
\* (the client raised, or was not called) attempts no synchronization and
\* leaves the central file, the views and the server as they were; the
\* local files change only in a step whose remote mutation returned.
C29_SinExitoSinSincronizar ==
    [][(pc = "menu" /\ MODO_API) =>
          /\ (traza'.op \in OperacionesApi /\ ~traza'.resultado) =>
                /\ disco' = disco
                /\ remoto' = remoto
                /\ ~traza'.guardo
                /\ ~traza'.sincronizo
          /\ disco' # disco => (traza'.op \in OperacionesApi /\ traza'.resultado)]_vars

\* The server answered the DELETE with 500: the client raised, the handler
\* reported it, and the central file still holds the row it held, which is
\* not an item of the server.
C29_Testigo ==
    /\ pc = "menu"
    /\ MODO_API
    /\ traza.op = "borrar_api"
    /\ traza.exc = "HTTPError"
    /\ ~traza.resultado
    /\ remoto # <<>>
    /\ disco[db_path_api].central = ArchivoDeFilas(<<FilaInicio(tAB, t2020)>>)

NextApi ==
    \/ MenuConsultaApi
    \/ MenuAgregarApi
    \/ MenuEditarApi
    \/ MenuBorrarApi
    \/ MenuSalir

SpecApi == InitApi /\ [][NextApi]_vars

(***************************************************************************)
(* SpecMenu: every operation of the menu in both modes, in a session that  *)
(* starts from a central file without rows and a server with two items.    *)
(* The handlers that write are given fewer inputs than in Spec, and a file *)
(* system that does not fail.                                              *)
(***************************************************************************)

InitMenu ==
    /\ pc = "inicio"
    /\ excepcion = ""
    /\ MODO_API = FALSE
    /\ autos = <<>>
    /\ disco = [r \in {db_path, db_path_api} |->
                   [central |-> ArchivoDeFilas(<<>>), subgrupos |-> SubgruposVacios]]
    /\ soloValidas = TRUE
    /\ remoto = <<ItemOk, ItemApi(<<"D">>, Int_(t2020), Str(<<"M">>))>>
    /\ traza = TrazaVacia
    /\ NormReposo
    /\ CsvReposo
    /\ ConsultaReposo

\* C30: the handler follows MODO_API.  From the menu in API mode no step
\* changes main.autos; from the menu in local mode no step changes the
\* collection of the server, and the handler that ran is a local one; and a
\* query, in either mode, changes neither main.autos nor the collection.
C30_DespachoSegunModo ==
    [][/\ (pc = "menu" /\ MODO_API) => autos' = autos
       /\ (pc = "menu" /\ ~MODO_API) =>
             /\ remoto' = remoto
             /\ traza' # traza =>
                   traza'.op \in {"consulta", "agregar", "editar", "borrar"}
       /\ (traza' # traza /\ traza'.op \in {"consulta", "consulta_api"}) =>
             (autos' = autos /\ remoto' = remoto)]_vars

\* In API mode, with an auto in main.autos that the server does not hold, a
\* delete on the server succeeded: main.autos still holds that auto.
C30_Testigo ==
    /\ pc = "menu"
    /\ MODO_API
    /\ traza.op = "borrar_api"
    /\ traza.resultado
    /\ Len(autos) = 1
    /\ autos[1].Marca = tAB
    /\ \A i \in 1..Len(remoto) : remoto[i] # DictDeAuto(autos[1])

\* case 7, local, with a year accepted and a year that is not a number
MenuAgregarBreve ==
    MenuAgregarCon({e \in EntradasAgregar :
                       e.marca = <<tAB>> /\ e.anio # <<t1800, t2020>>}, {""})

\* case 8, local, with a number that is not one, and a year that is not one
\* next to a new fuel
MenuEditarBreve ==
    MenuEditarCon({EntradaEditar(<<"a">>, <<"x">>, <<>>, <<>>, <<>>),
                   EntradaEditar(<<"A">>, <<"1">>, <<>>, <<"x">>, <<"E">>)}, {""})

\* case 9, local, confirmed and not confirmed
MenuBorrarBreve ==
    MenuBorrarCon({EntradaBorrar(<<"A">>, <<" ", "1">>, c) :
                      c \in {<<" ", "s">>, <<"n">>}}, {""})

\* case 7, API, with a synchronization that succeeds
MenuAgregarApiBreve == MenuAgregarApiCon({"lista"}, {""})

NextMenu ==
    \/ Arranque
    \/ ElegirModo
    \/ MenuConsulta
    \/ MenuAgregarBreve
    \/ MenuEditarBreve
    \/ MenuBorrarBreve
    \/ MenuConsultaApi
    \/ MenuAgregarApiBreve
    \/ MenuEditarApi
    \/ MenuBorrarApi
    \/ MenuCambiarModo
    \/ MenuSalir
    \/ MenuOpcionInvalida

SpecMenu == InitMenu /\ [][NextMenu]_vars

====
